---- MODULE Spec2Model ----
(***************************************************************************)
(* Model of webrender's SurfaceBuilder (src/webrender/src/surface.rs): the *)
(* stack machine that wires off-screen surfaces into the render task       *)
(* graph, including the sub-graph rewiring done by pop_surface; and of     *)
(* PicturePrimitive (src/webrender/src/picture.rs): a picture's primitive  *)
(* runs, its enter/exit protocol and the tasks it prepares for a frame.    *)
(*                                                                         *)
(* A panic in a handler is modelled by setting `fatal` to the panic        *)
(* message; the other variables then hold whatever the handler had already *)
(* written when it panicked, and no further call is made.                  *)
(***************************************************************************)
EXTENDS Bags, FiniteSets, Integers, Sequences, TLC

VARIABLES
    builder_stack,        \* SurfaceBuilder.builder_stack: Vec<CommandBufferBuilder>
    dirty_rect_stack,     \* SurfaceBuilder.dirty_rect_stack: Vec<Vec<PictureRect>>
    current_cmd_buffers,  \* SurfaceBuilder.current_cmd_buffers
    tasks,                \* the render task graph's tasks; a RenderTaskId is an index
    deps,                 \* bag of add_dependency(parent, child) edges <<parent, child>>
    cmd_buffers,          \* CommandBufferList: one primitive list per command buffer
    surfaces,             \* the caller's SurfaceInfo slice: clipping_rect per slot
    pending_tasks,        \* tasks the caller has added for the surface it pushes next
    pushes,               \* push_surface calls that returned
    pops,                 \* pop_surface calls that returned
    finalized,            \* TRUE once finalize() has consumed the builder
    fatal,                \* NoPanic, or the message of the panic that ended the run
    last_op,              \* the call that produced this state, and the scope it popped
    arg,                  \* the arguments of the call that produced this state
    ret,                  \* what that call returned
    open_rects,           \* per open scope, the dirty rects its push_surface was given
    early_children,       \* the tasks given to add_child_render_task while their
                          \* surface was still to be pushed
    pic,                  \* a PicturePrimitive
    traversal,            \* the context the traversal took from pic and the state
                          \* it collects for pic's children, or NoTraversal
    render_tasks,         \* frame_state.render_tasks: the frame's RenderTaskTree
    parent_tasks,         \* pic_state.tasks of the picture pic is drawn into
    task_cache,           \* keys of the entries of the render task cache
    frame_prepared,       \* TRUE once prepare_for_render has run for pic in the
                          \* frame being built
    dropped_runs          \* the run list pic held when the restore_context that
                          \* produced this state replaced it; empty after any
                          \* other call

surface_vars == <<builder_stack, dirty_rect_stack, current_cmd_buffers, tasks, deps,
                  cmd_buffers, surfaces, pending_tasks, pushes, pops, finalized,
                  fatal, last_op>>

picture_vars == <<pic, traversal, render_tasks, parent_tasks, task_cache,
                  frame_prepared, dropped_runs>>

vars == <<surface_vars, arg, ret, open_rects, early_children, picture_vars>>

----------------------------------------------------------------------------
(* Bounds and input sets *)

\* Largest number of tasks the graph may hold.
MaxTasks == 5

\* Option::<RenderTaskId>::None
NoTask == 0

NoPanic == "none"

\* Option::unwrap() on the None of a projection that failed
ProjectionPanic == "unwrap on None: projection failed"

\* A call without arguments, and one that returns nothing
NoArg == <<>>
NoRet == <<>>

\* TileKey { tile_offset: (x, y), sub_slice_index } as <<x, y, s>>
TileKeys == {<<0, 0, 0>>, <<1, 0, 0>>}

\* PictureRect as [x0, y0, x1, y1] (min inclusive, max exclusive)
Rect(x0, y0, x1, y1) == [x0 |-> x0, y0 |-> y0, x1 |-> x1, y1 |-> y1]

GraphRects == {Rect(0, 0, 2, 2)}

SurfaceIndices == {0}

UnsetRect == Rect(0, 0, 0, 0)

\* Outcomes of SpaceMapper::map_point on the resolve target's content origin:
\* None when the projection fails, else a device point.
NoPoint == <<>>
MapPointResults == {NoPoint, <<1, 0>>}

\* The most tasks one surface descriptor names: one per tile, or a chained
\* surface's task and root task
MaxSurfaceTasks == Cardinality(TileKeys)

\* RenderTaskLocation of a task added by the caller, and its size
TaskSize == <<2, 2>>
DynamicLocation == [tag |-> "Dynamic", parent_task_id |-> NoTask, size |-> TaskSize]

Last(s) == s[Len(s)]
Front(s) == SubSeq(s, 1, Len(s) - 1)

\* All orders in which a hash map can iterate over the key set S
RECURSIVE Orders(_)
Orders(S) ==
    IF S = {} THEN {<<>>}
    ELSE UNION {{<<k>> \o o : o \in Orders(S \ {k})} : k \in S}

----------------------------------------------------------------------------
(* Collaborators: render task graph, command buffer list, builders *)

NoResolveOp == <<>>

PictureTask(location, cmd_buffer_index, resolve_op) ==
    [kind |-> "Picture", location |-> location,
     cmd_buffer_index |-> cmd_buffer_index, resolve_op |-> resolve_op]

OtherTask(location) ==
    [kind |-> "Other", location |-> location,
     cmd_buffer_index |-> 0, resolve_op |-> NoResolveOp]

\* rg_builder.add_dependency(parent, child): parent waits on child
AddDependency(d, parent, child) == d (+) SetToBag({<<parent, child>>})

\* RenderTaskLocation::size()
LocationSize(location) == location.size

\* PictureTask::duplicate(cmd_buffer_index): the same payload in a new
\* command buffer slot
Duplicate(task, cmd_buffer_index) ==
    [task EXCEPT !.cmd_buffer_index = cmd_buffer_index]

\* CommandBufferBuilder::new_tiled(tiles)
NewTiled(tiles) ==
    [kind |-> "Tiled", tiles |-> tiles, render_task_id |-> NoTask,
     root_task_id |-> NoTask, establishes_sub_graph |-> FALSE,
     resolve_source |-> NoTask]

\* CommandBufferBuilder::new_simple(render_task_id, establishes_sub_graph, root_task_id)
NewSimple(render_task_id, establishes_sub_graph, root_task_id) ==
    [kind |-> "Simple", tiles |-> <<>>, render_task_id |-> render_task_id,
     root_task_id |-> root_task_id,
     establishes_sub_graph |-> establishes_sub_graph,
     resolve_source |-> NoTask]

\* CommandBufferBuilder::empty()
EmptyBuilder ==
    [kind |-> "Invalid", tiles |-> <<>>, render_task_id |-> NoTask,
     root_task_id |-> NoTask, establishes_sub_graph |-> FALSE,
     resolve_source |-> NoTask]

NoBuilder == EmptyBuilder

----------------------------------------------------------------------------
(* SurfaceDescriptor *)

NewTiledDescriptor(tiles, dirty_rects) ==
    [kind |-> "Tiled", tiles |-> tiles, render_task_id |-> NoTask,
     root_task_id |-> NoTask, dirty_rects |-> dirty_rects]

NewChainedDescriptor(render_task_id, root_task_id, dirty_rect) ==
    [kind |-> "Chained", tiles |-> <<>>, render_task_id |-> render_task_id,
     root_task_id |-> root_task_id, dirty_rects |-> <<dirty_rect>>]

NewSimpleDescriptor(render_task_id, dirty_rect) ==
    [kind |-> "Simple", tiles |-> <<>>, render_task_id |-> render_task_id,
     root_task_id |-> NoTask, dirty_rects |-> <<dirty_rect>>]

\* The task ids a descriptor names
DescriptorTasks(d) ==
    IF d.kind = "Tiled" THEN {d.tiles[k] : k \in DOMAIN d.tiles}
    ELSE {d.render_task_id, d.root_task_id} \ {NoTask}

\* Injective maps from a non-empty set of tile keys into the task ids T:
\* every tile of a picture cache has a render task of its own.
TileMaps(T) ==
    UNION {{f \in [K -> T] : \A a, b \in K : f[a] = f[b] => a = b}
           : K \in (SUBSET TileKeys) \ {{}}}

\* The descriptors a caller can build over the task ids T with rects from R
Descriptors(T, R) ==
    {NewTiledDescriptor(f, <<r>>) : f \in TileMaps(T), r \in R}
    \cup {NewSimpleDescriptor(t, r) : t \in T, r \in R}
    \cup {NewChainedDescriptor(p[1], p[2], r)
             : p \in {q \in T \X T : q[1] # q[2]}, r \in R}

----------------------------------------------------------------------------
(* CommandBufferTargets *)

NotPictureTasks(cb, tsk) ==
    CASE cb.kind = "Tiled" ->
            {k \in DOMAIN cb.tiles : tsk[cb.tiles[k]].kind # "Picture"}
      [] cb.kind = "Simple" ->
            IF tsk[cb.render_task_id].kind # "Picture" THEN {cb.render_task_id} ELSE {}
      [] OTHER -> {}

\* CommandBufferTargets::init panics with "bug: not a picture"
InitPanics(cb, tsk) == NotPictureTasks(cb, tsk) # {}

\* CommandBufferTargets::init: the target it assigns to *self
InitTargets_TaskIds(cb, tsk) ==
    CASE cb.kind = "Tiled" ->
            [kind |-> "Tiled", tiles |-> cb.tiles, cmd_buffer_index |-> 0]
      [] cb.kind = "Simple" ->
            [kind |-> "Simple", tiles |-> <<>>, cmd_buffer_index |-> cb.render_task_id]
      [] OTHER ->
            [kind |-> "Tiled", tiles |-> <<>>, cmd_buffer_index |-> 0]

InitTargets(cb, tsk) ==
    CASE cb.kind = "Tiled" ->
            [kind |-> "Tiled",
             tiles |-> [k \in DOMAIN cb.tiles |-> tsk[cb.tiles[k]].cmd_buffer_index],
             cmd_buffer_index |-> 0]
      [] cb.kind = "Simple" ->
            [kind |-> "Simple", tiles |-> <<>>,
             cmd_buffer_index |-> tsk[cb.render_task_id].cmd_buffer_index]
      [] OTHER ->
            [kind |-> "Tiled", tiles |-> <<>>, cmd_buffer_index |-> 0]

----------------------------------------------------------------------------
(* PicturePrimitive: composite modes and construction *)

\* Lengths of the layout space (f32) are counted in halves: n stands for n/2.
\* BLUR_SAMPLE_SCALE is a plain factor.
BLUR_SAMPLE_SCALE == 3

\* f32::ceil of n halves, in halves
Ceil(n) == 2 * ((n + 1) \div 2)

\* FilterOp
Blur(radius) == [op |-> "Blur", radius |-> radius]
Opacity(binding, value) == [op |-> "Opacity", binding |-> binding, value |-> value]
DropShadow(offset, radius, color) ==
    [op |-> "DropShadow", offset |-> offset, radius |-> radius, color |-> color]
ColorMatrix(m) == [op |-> "ColorMatrix", m |-> m]

\* PropertyBinding<f32>: a plain value, or a key into the scene properties
\* with the value to use by default
BindingValue(value) == [tag |-> "Value", value |-> value]
BindingKey(default) == [tag |-> "Binding", value |-> default]

\* Option<PictureCompositeMode>
NoCompositeMode == [tag |-> "None"]
Blit == [tag |-> "Blit"]
MixBlend == [tag |-> "MixBlend"]
Filter(filter) == [tag |-> "Filter", filter |-> filter]

\* Blur radii (0, 1/2, 3/2), opacities (0, 1/2, 1), shadow offsets and colour
\* matrices a display list gives a picture
BlurRadii == {0, 1, 3}
OpacityValues == {0, 1, 2}
ShadowOffsets == {<<0, 0>>, <<2, 0>>}
ShadowRadii == {0, 1}
ColorMatrices == {"identity", "sepia"}

Filters ==
    {Blur(r) : r \in BlurRadii}
    \cup {Opacity(BindingValue(v), v) : v \in OpacityValues}
    \cup {Opacity(BindingKey(2), 2)}
    \cup {DropShadow(o, r, "black") : o \in ShadowOffsets, r \in ShadowRadii}
    \cup {ColorMatrix(m) : m \in ColorMatrices}

CompositeModes ==
    {NoCompositeMode, Blit, MixBlend} \cup {Filter(f) : f \in Filters}

\* Option::None of the picture's state, surface and secondary task, and of
\* the traversal's context
NoState == <<>>
NoSurface == <<>>
NoTraversal == <<>>

\* PicturePrimitive::new_image
NewImage(composite_mode) ==
    [runs |-> <<>>,
     state |-> NoState,
     surface |-> NoSurface,
     secondary_render_task_id |-> NoTask,
     composite_mode |-> composite_mode,
     apply_local_clip_rect |-> TRUE,
     extra_gpu_data |-> "none"]

----------------------------------------------------------------------------
(* SurfaceBuilder *)

Op(name, builder) == [name |-> name, builder |-> builder]

Running == fatal = NoPanic /\ ~finalized

\* SurfaceBuilder::new(), with an empty graph and command buffer list
SurfaceBuilderNew ==
    /\ builder_stack = <<>>
    /\ dirty_rect_stack = <<>>
    /\ current_cmd_buffers = [kind |-> "Tiled", tiles |-> <<>>, cmd_buffer_index |-> 0]
    /\ tasks = <<>>
    /\ deps = EmptyBag
    /\ cmd_buffers = <<>>
    /\ surfaces = [i \in SurfaceIndices |-> UnsetRect]
    /\ pending_tasks = {}
    /\ pushes = 0
    /\ pops = 0
    /\ finalized = FALSE
    /\ fatal = NoPanic
    /\ last_op = Op("new", NoBuilder)
    /\ arg = NoArg
    /\ ret = NoRet
    /\ open_rects = <<>>
    /\ early_children = {}

\* A picture that nothing has been done to, in an empty frame
PictureNew(composite_mode) ==
    /\ pic = NewImage(composite_mode)
    /\ traversal = NoTraversal
    /\ render_tasks = <<>>
    /\ parent_tasks = <<>>
    /\ task_cache = {}
    /\ frame_prepared = FALSE
    /\ dropped_runs = <<>>

Init == SurfaceBuilderNew /\ PictureNew(NoCompositeMode)

\* The caller adds a task to the graph (rg_builder.add().init(..)); a picture
\* task gets a command buffer of its own (cmd_buffers.create_cmd_buffer()).
AddTask(kind) ==
    /\ Running
    /\ Len(tasks) < MaxTasks
    /\ Cardinality(pending_tasks) < MaxSurfaceTasks
    /\ IF kind = "Picture"
       THEN /\ cmd_buffers' = Append(cmd_buffers, <<>>)
            /\ tasks' = Append(tasks,
                    PictureTask(DynamicLocation, Len(cmd_buffers) + 1, NoResolveOp))
       ELSE /\ tasks' = Append(tasks, OtherTask(DynamicLocation))
            /\ UNCHANGED cmd_buffers
    /\ pending_tasks' = pending_tasks \cup {Len(tasks) + 1}
    /\ last_op' = Op("add_task", NoBuilder)
    /\ UNCHANGED <<builder_stack, dirty_rect_stack, current_cmd_buffers, deps,
                   surfaces, pushes, pops, finalized, fatal>>

\* The builder push_surface makes from the descriptor
BuilderOf(descriptor, is_sub_graph) ==
    CASE descriptor.kind = "Tiled" ->
            NewTiled(descriptor.tiles)
      [] descriptor.kind = "Simple" ->
            NewSimple(descriptor.render_task_id, is_sub_graph, NoTask)
      [] descriptor.kind = "Chained" ->
            NewSimple(descriptor.render_task_id, is_sub_graph, descriptor.root_task_id)

\* self.dirty_rect_stack.push(descriptor.dirty_rects)
PushDirtyRects(stack, dirty_rects) == Append(stack, dirty_rects)

PushSurface(surface_index, is_sub_graph, clipping_rect, descriptor) ==
    LET builder == BuilderOf(descriptor, is_sub_graph) IN
    /\ Running
    /\ surfaces' = [surfaces EXCEPT ![surface_index] = clipping_rect]
    /\ dirty_rect_stack' = PushDirtyRects(dirty_rect_stack, descriptor.dirty_rects)
    /\ pending_tasks' = pending_tasks \ DescriptorTasks(descriptor)
    /\ IF InitPanics(builder, tasks)
       THEN /\ fatal' = "bug: not a picture"
            /\ UNCHANGED <<builder_stack, current_cmd_buffers, pushes>>
       ELSE /\ current_cmd_buffers' = InitTargets(builder, tasks)
            /\ builder_stack' = Append(builder_stack, builder)
            /\ pushes' = pushes + 1
            /\ UNCHANGED fatal
    /\ last_op' = Op("push_surface", builder)
    /\ UNCHANGED <<tasks, deps, cmd_buffers, pops, finalized>>

\* (a walk that starts at the bottom of the stack instead)
NearestSubGraph_FromBottom(stack, i) ==
    IF \A j \in 1 .. i : ~stack[j].establishes_sub_graph THEN 0
    ELSE CHOOSE j \in 1 .. i :
            /\ stack[j].establishes_sub_graph
            /\ \A k \in 1 .. (j - 1) : ~stack[k].establishes_sub_graph

\* The index of the scope register_resolve_source writes to: the first one
\* flagged establishes_sub_graph walking from position i down, 0 if none
RECURSIVE NearestSubGraph(_, _)
NearestSubGraph(stack, i) ==
    IF i = 0 THEN 0
    ELSE IF stack[i].establishes_sub_graph THEN i
    ELSE NearestSubGraph(stack, i - 1)

\* The match on the top scope's kind: only a simple surface yields a task id
TopIsSimple_Any(stack) == TRUE
TopIsSimple(stack) == Last(stack).kind = "Simple"

\* assert_eq!(builder.resolve_source, None)
ResolveSourceUnset_Unchecked(builder) == TRUE
ResolveSourceUnset(builder) == builder.resolve_source = NoTask

RegisterResolveSource ==
    /\ Running
    /\ last_op' = Op("register_resolve_source", NoBuilder)
    /\ UNCHANGED <<dirty_rect_stack, current_cmd_buffers, tasks, deps, cmd_buffers,
                   surfaces, pending_tasks, pushes, pops, finalized>>
    /\ IF builder_stack = <<>>
       THEN fatal' = "unwrap on None" /\ UNCHANGED builder_stack
       ELSE IF ~TopIsSimple(builder_stack)
       THEN /\ fatal' = "bug: only supported for non-tiled surfaces"
            /\ UNCHANGED builder_stack
       ELSE LET surface_task_id == Last(builder_stack).render_task_id
                i == NearestSubGraph(builder_stack, Len(builder_stack))
            IN  IF i = 0
                THEN /\ fatal' = "bug: resolve source with no sub-graph"
                     /\ UNCHANGED builder_stack
                ELSE IF ~ResolveSourceUnset(builder_stack[i])
                THEN /\ fatal' = "assertion failed: resolve_source == None"
                     /\ UNCHANGED builder_stack
                ELSE /\ builder_stack' =
                            [builder_stack EXCEPT ![i].resolve_source = surface_task_id]
                     /\ UNCHANGED fatal

Finalize_Unchecked ==
    /\ Running
    /\ last_op' = Op("finalize", NoBuilder)
    /\ finalized' = TRUE
    /\ UNCHANGED <<builder_stack, dirty_rect_stack, current_cmd_buffers, tasks, deps,
                   cmd_buffers, surfaces, pending_tasks, pushes, pops, fatal>>

Finalize ==
    /\ Running
    /\ last_op' = Op("finalize", NoBuilder)
    /\ IF builder_stack = <<>>
       THEN finalized' = TRUE /\ UNCHANGED fatal
       ELSE fatal' = "assertion failed: builder_stack.is_empty()" /\ UNCHANGED finalized
    /\ UNCHANGED <<builder_stack, dirty_rect_stack, current_cmd_buffers, tasks, deps,
                   cmd_buffers, surfaces, pending_tasks, pushes, pops>>

----------------------------------------------------------------------------
(* pop_surface *)

\* RenderTask::new(location, RenderTaskKind::Picture(pic_task))
RenderTaskNew(location, pic_task) == [pic_task EXCEPT !.location = location]

\* self.dirty_rect_stack.pop().unwrap(), on a non-empty stack
PopDirtyRects_Keep(stack) == stack
PopDirtyRects(stack) == Front(stack)

ResolveOp_Swapped(src_task_id, dest_origin, dest_task_id) ==
    [src_task_id |-> dest_task_id, dest_origin |-> dest_origin,
     dest_task_id |-> src_task_id]

ResolveOp(src_task_id, dest_origin, dest_task_id) ==
    [src_task_id |-> src_task_id, dest_origin |-> dest_origin,
     dest_task_id |-> dest_task_id]

OutputTask_Direct(builder) == builder.render_task_id

\* child_root_task_id.unwrap_or(child_render_task_id)
OutputTask(builder) ==
    IF builder.root_task_id # NoTask THEN builder.root_task_id
    ELSE builder.render_task_id

\* Make the existing parent task an input dependency of the resolve target
ResolveDependency_Reversed(d, resolve_task_id, parent_task_id) ==
    AddDependency(d, parent_task_id, resolve_task_id)
\* (the parent task made to wait on the resolve target as well)
ResolveDependency_Mutual(d, resolve_task_id, parent_task_id) ==
    AddDependency(AddDependency(d, resolve_task_id, parent_task_id),
                  parent_task_id, resolve_task_id)
ResolveDependency(d, resolve_task_id, parent_task_id) ==
    AddDependency(d, resolve_task_id, parent_task_id)

\* tiles.remove(&key)
RemoveTile(tiles, key) == [k \in (DOMAIN tiles) \ {key} |-> tiles[k]]

\* tiles.insert(key, new_task_id)
InsertTile_Skipped(tiles, key, new_task_id) == tiles
InsertTile(tiles, key, new_task_id) ==
    [k \in (DOMAIN tiles) \cup {key} |-> IF k = key THEN new_task_id ELSE tiles[k]]

\* The graph, command buffer list and parent tile map while a pop rewires them
Graph(tsk, d, cbs, tiles, panic) ==
    [tasks |-> tsk, deps |-> d, cmd_buffers |-> cbs, tiles |-> tiles, panic |-> panic]

\* (a duplicate taken after the resolve op is set)
DuplicateSource_Resolved(pic_task, resolved_task) == resolved_task

\* pic_task.duplicate(..) runs before pic_task.resolve_op is assigned: the
\* payload that is duplicated is the one the task had before the pop
DuplicateSource(pic_task, resolved_task) == pic_task

\* One iteration of the loop over the tiles of a tiled parent
RewireTile(g, key, resolve_task_id, dest_origin, child_output) ==
    LET parent_task_id == g.tiles[key]
        removed == RemoveTile(g.tiles, key)
        parent_task == g.tasks[parent_task_id]
        location == parent_task.location
        cmd_buffer_index == Len(g.cmd_buffers) + 1
        resolved == [g.tasks EXCEPT ![parent_task_id].resolve_op =
                        <<ResolveOp(parent_task_id, dest_origin, resolve_task_id)>>]
        new_pic_task == Duplicate(DuplicateSource(parent_task,
                                                  resolved[parent_task_id]),
                                  cmd_buffer_index)
        deps1 == ResolveDependency(g.deps, resolve_task_id, parent_task_id)
        new_task_id == Len(resolved) + 1
        deps2 == AddDependency(deps1, new_task_id, child_output)
    IN  IF parent_task.kind # "Picture"
        THEN Graph(g.tasks, g.deps, g.cmd_buffers, removed, "bug: not a picture")
        ELSE Graph(Append(resolved, RenderTaskNew(location, new_pic_task)),
                   deps2,
                   Append(g.cmd_buffers, <<>>),
                   InsertTile(removed, key, new_task_id),
                   NoPanic)

\* The loop over the parent's tile keys, in the order the hash map yields them
RECURSIVE RewireTiles(_, _, _, _, _)
RewireTiles(g, keys, resolve_task_id, dest_origin, child_output) ==
    IF keys = <<>> \/ g.panic # NoPanic THEN g
    ELSE RewireTiles(
            RewireTile(g, Head(keys), resolve_task_id, dest_origin, child_output),
            Tail(keys), resolve_task_id, dest_origin, child_output)

\* (a replacement that is given a place of its own, named after no task)
ExistingLocation_Unnamed(parent_task_id, size) ==
    [tag |-> "Existing", parent_task_id |-> NoTask, size |-> size]

\* RenderTaskLocation::Existing { parent_task_id, size }
ExistingLocation(parent_task_id, size) ==
    [tag |-> "Existing", parent_task_id |-> parent_task_id, size |-> size]

\* The place a location stands for: an Existing location stands for the place
\* of the task it names, any other location for itself
RECURSIVE DrawPlace(_, _)
DrawPlace(tsk, location) ==
    IF location.tag = "Existing" /\ location.parent_task_id \in DOMAIN tsk
    THEN DrawPlace(tsk, tsk[location.parent_task_id].location)
    ELSE location

\* The branch for a simple parent; g.tiles holds the parent's render_task_id
RewireSimple(g, resolve_task_id, dest_origin, child_output) ==
    LET parent_task_id == g.tiles
        parent_task == g.tasks[parent_task_id]
        location == ExistingLocation(parent_task_id,
                                     LocationSize(parent_task.location))
        cmd_buffer_index == Len(g.cmd_buffers) + 1
        resolved == [g.tasks EXCEPT ![parent_task_id].resolve_op =
                        <<ResolveOp(parent_task_id, dest_origin, resolve_task_id)>>]
        new_pic_task == Duplicate(DuplicateSource(parent_task,
                                                  resolved[parent_task_id]),
                                  cmd_buffer_index)
        deps1 == ResolveDependency(g.deps, resolve_task_id, parent_task_id)
        new_task_id == Len(resolved) + 1
        deps2 == AddDependency(deps1, new_task_id, child_output)
    IN  IF parent_task.kind # "Picture"
        THEN Graph(g.tasks, g.deps, g.cmd_buffers, g.tiles, "bug: not a picture")
        ELSE Graph(Append(resolved, RenderTaskNew(location, new_pic_task)),
                   deps2,
                   Append(g.cmd_buffers, <<>>),
                   new_task_id,
                   NoPanic)

\* The non-sub-graph branch: the edges onto the popped surface's output
RECURSIVE AddTileDependencies(_, _, _, _)
AddTileDependencies(d, tiles, keys, child) ==
    IF keys = <<>> THEN d
    ELSE AddTileDependencies(AddDependency(d, tiles[Head(keys)], child),
                             tiles, Tail(keys), child)

\* How many tasks the pop of `builder` off `rest` adds to the graph
NewTaskCount(builder, rest) ==
    IF builder.establishes_sub_graph /\ builder.kind = "Simple" /\ rest # <<>>
    THEN IF Last(rest).kind = "Tiled" THEN Cardinality(DOMAIN Last(rest).tiles) ELSE 1
    ELSE 0

\* The state pop_surface leaves when it panics with `message` after both pops
PopPanics(rest, message) ==
    /\ fatal' = message
    /\ builder_stack' = rest
    /\ UNCHANGED <<current_cmd_buffers, tasks, deps, cmd_buffers>>

\* The end of pop_surface: the parent scope and the graph written back, and
\* the command buffer targets set up from the scope now on top
PopDone_StaleTargets(rest, g) ==
    /\ tasks' = g.tasks
    /\ deps' = g.deps
    /\ cmd_buffers' = g.cmd_buffers
    /\ builder_stack' = rest
    /\ IF g.panic # NoPanic THEN fatal' = g.panic ELSE UNCHANGED fatal
    /\ UNCHANGED current_cmd_buffers

PopDone(rest, g) ==
    /\ tasks' = g.tasks
    /\ deps' = g.deps
    /\ cmd_buffers' = g.cmd_buffers
    /\ builder_stack' = rest
    /\ IF g.panic # NoPanic
       THEN fatal' = g.panic /\ UNCHANGED current_cmd_buffers
       ELSE /\ UNCHANGED fatal
            /\ current_cmd_buffers' =
                 InitTargets(IF rest = <<>> THEN EmptyBuilder ELSE Last(rest), g.tasks)

\* The edges of a simple scope popped onto the scope now on top
WireParent(builder, rest) ==
    LET parent == Last(rest)
        child == OutputTask(builder)
    IN  IF parent.kind = "Tiled"
        THEN \E keys \in Orders(DOMAIN parent.tiles) :
             PopDone(rest, Graph(tasks,
                                 AddTileDependencies(deps, parent.tiles, keys, child),
                                 cmd_buffers, <<>>, NoPanic))
        ELSE PopDone(rest, Graph(tasks,
                                 AddDependency(deps, parent.render_task_id, child),
                                 cmd_buffers, <<>>, NoPanic))

\* (a simple scope with nothing below it popped like a tiled root)
PopPlain_Rootless(builder, rest) ==
    IF builder.kind = "Tiled" \/ rest = <<>>
    THEN PopDone(rest, Graph(tasks, deps, cmd_buffers, <<>>, NoPanic))
    ELSE WireParent(builder, rest)

PopPlain(builder, rest) ==
    IF builder.kind = "Tiled"
    THEN PopDone(rest, Graph(tasks, deps, cmd_buffers, <<>>, NoPanic))
    ELSE IF rest = <<>>
    THEN PopPanics(rest, "unwrap on None")
    ELSE WireParent(builder, rest)

PopSubGraph_AsPlain(builder, rest) == PopPlain(builder, rest)

PopSubGraph(builder, rest) ==
    IF builder.kind # "Simple"
    THEN PopPanics(rest, "bug: sub-graphs can only be simple surfaces")
    ELSE IF builder.resolve_source = NoTask
    THEN PopPanics(rest, "bug: no resolve set")
    ELSE IF tasks[builder.resolve_source].kind # "Picture"
    THEN PopPanics(rest, "unreachable")
    ELSE \E dest_origin \in MapPointResults :
         IF dest_origin = NoPoint
         THEN PopPanics(rest, ProjectionPanic)
         ELSE IF rest = <<>>
         THEN PopPanics(rest, "unwrap on None")
         ELSE LET parent == Last(rest)
                  g0 == Graph(tasks, deps, cmd_buffers,
                              IF parent.kind = "Tiled" THEN parent.tiles
                              ELSE parent.render_task_id,
                              NoPanic)
              IN  IF parent.kind = "Tiled"
                  THEN \E keys \in Orders(DOMAIN parent.tiles) :
                       LET g == RewireTiles(g0, keys, builder.resolve_source,
                                            dest_origin, OutputTask(builder))
                       IN  PopDone([rest EXCEPT ![Len(rest)].tiles = g.tiles], g)
                  ELSE LET g == RewireSimple(g0, builder.resolve_source,
                                             dest_origin, OutputTask(builder))
                       IN  PopDone([rest EXCEPT ![Len(rest)].render_task_id = g.tiles], g)

PopSurface ==
    /\ Running
    /\ UNCHANGED <<surfaces, pending_tasks, pushes, finalized>>
    /\ IF dirty_rect_stack = <<>>
       THEN /\ fatal' = "unwrap on None"
            /\ last_op' = Op("pop_surface", NoBuilder)
            /\ UNCHANGED <<builder_stack, dirty_rect_stack, current_cmd_buffers,
                           tasks, deps, cmd_buffers>>
       ELSE /\ dirty_rect_stack' = PopDirtyRects(dirty_rect_stack)
            /\ IF builder_stack = <<>>
               THEN /\ fatal' = "unwrap on None"
                    /\ last_op' = Op("pop_surface", NoBuilder)
                    /\ UNCHANGED <<builder_stack, current_cmd_buffers, tasks, deps,
                                   cmd_buffers>>
               ELSE LET builder == Last(builder_stack)
                        rest == Front(builder_stack)
                    IN  /\ Len(tasks) + NewTaskCount(builder, rest) <= MaxTasks
                        /\ last_op' = Op("pop_surface", builder)
                        /\ IF builder.establishes_sub_graph
                           THEN PopSubGraph(builder, rest)
                           ELSE PopPlain(builder, rest)
    /\ pops' = IF fatal' = NoPanic THEN pops + 1 ELSE pops

----------------------------------------------------------------------------
(* The calls a frame's traversal makes, in any order *)

\* The descriptors of the surface the caller has added pending_tasks for
PendingDescriptors(R) ==
    {d \in Descriptors(pending_tasks, R) : DescriptorTasks(d) = pending_tasks}

\* The record of a call on the surface builder that is not a query: its
\* arguments, and no result
Called(a) ==
    arg' = a /\ ret' = NoRet /\ UNCHANGED <<early_children, picture_vars>>

\* The scopes open after the call, if it returned
Opened(rects) == open_rects' = IF fatal' = NoPanic THEN rects ELSE open_rects

CallAddTask(kind) ==
    AddTask(kind) /\ Called([kind |-> kind]) /\ UNCHANGED open_rects

CallPushSurface(surface_index, is_sub_graph, clipping_rect, descriptor) ==
    /\ PushSurface(surface_index, is_sub_graph, clipping_rect, descriptor)
    /\ Called([surface_index |-> surface_index, is_sub_graph |-> is_sub_graph,
               clipping_rect |-> clipping_rect, descriptor |-> descriptor])
    /\ Opened(Append(open_rects, descriptor.dirty_rects))

CallRegisterResolveSource ==
    RegisterResolveSource /\ Called(NoArg) /\ UNCHANGED open_rects

CallPopSurface ==
    PopSurface /\ Called(NoArg) /\ Opened(Front(open_rects))

CallFinalize ==
    Finalize /\ Called(NoArg) /\ UNCHANGED open_rects

Next ==
    \/ \E kind \in {"Picture", "Other"} : CallAddTask(kind)
    \/ \E surface_index \in SurfaceIndices, is_sub_graph \in BOOLEAN,
          clipping_rect \in GraphRects,
          descriptor \in PendingDescriptors(GraphRects) :
            CallPushSurface(surface_index, is_sub_graph, clipping_rect, descriptor)
    \/ CallRegisterResolveSource
    \/ CallPopSurface
    \/ CallFinalize

Spec == Init /\ [][Next]_vars

----------------------------------------------------------------------------
(* Properties of the surface builder *)

\* The tasks a scope currently draws into
ScopeTasks(scope) ==
    IF scope.kind = "Tiled" THEN {scope.tiles[k] : k \in DOMAIN scope.tiles}
    ELSE {scope.render_task_id}

\* This step is a pop_surface call that returned
PopReturned == last_op'.name = "pop_surface" /\ fatal' = NoPanic

\* This step is a returning pop_surface of a scope that establishes a sub-graph
SubGraphPopReturned == PopReturned /\ Last(builder_stack).establishes_sub_graph

\* This step is a register_resolve_source call on a non-empty stack
RegisterCalled == last_op'.name = "register_resolve_source" /\ builder_stack # <<>>

\* The positions of the scopes flagged establishes_sub_graph
SubGraphScopes(stack) == {i \in 1 .. Len(stack) : stack[i].establishes_sub_graph}

Max(S) == CHOOSE m \in S : \A n \in S : n <= m

\* C1: as long as no call has panicked, builder_stack and dirty_rect_stack
\* have the same depth, and that depth is the number of push_surface calls
\* minus the number of pop_surface calls made so far.
C1_StackDepths ==
    fatal = NoPanic =>
        /\ Len(builder_stack) = Len(dirty_rect_stack)
        /\ Len(builder_stack) = pushes - pops

C1_Witness ==
    /\ fatal = NoPanic
    /\ pushes >= 3
    /\ pops >= 1
    /\ Len(builder_stack) = 2
    /\ last_op.name = "pop_surface"

\* C2: finalize returns exactly when every push_surface has been matched by
\* a pop_surface, and panics exactly when a pushed scope is still open.
C2_Finalize ==
    last_op.name = "finalize" =>
        /\ finalized <=> fatal = NoPanic
        /\ fatal = NoPanic <=> pushes = pops
        /\ fatal # NoPanic <=> pushes > pops

C2_Witness ==
    /\ last_op.name = "finalize"
    /\ finalized
    /\ pushes >= 2
    /\ pushes = pops

\* C3: a returning pop_surface of a scope that does not establish a
\* sub-graph adds no edge when the popped scope is Tiled, and otherwise adds
\* exactly one edge from every task of the scope now on top to the popped
\* scope's chain root, or to its own task when it has no chain root.
C3_PlainPopEdges ==
    [][ (PopReturned /\ ~Last(builder_stack).establishes_sub_graph) =>
            LET popped == Last(builder_stack)
                out == IF popped.root_task_id # NoTask THEN popped.root_task_id
                       ELSE popped.render_task_id
            IN  IF popped.kind = "Tiled"
                THEN deps' = deps
                ELSE /\ builder_stack' # <<>>
                     /\ deps' = deps (+) SetToBag(
                            {<<t, out>> : t \in ScopeTasks(Last(builder_stack'))})
      ]_vars

C3_Witness ==
    /\ last_op.name = "pop_surface"
    /\ fatal = NoPanic
    /\ ~last_op.builder.establishes_sub_graph
    /\ last_op.builder.root_task_id # NoTask
    /\ builder_stack # <<>>
    /\ Last(builder_stack).kind = "Tiled"
    /\ Cardinality(DOMAIN Last(builder_stack).tiles) = 2
    /\ BagCardinality(deps) = 2

\* C4: a returning pop_surface of a sub-graph scope leaves on every task the
\* parent scope drew into before the pop a resolve instruction whose source
\* is that task and whose destination task is the popped scope's recorded
\* resolve source; the tasks the pop adds carry no resolve instruction, and
\* no other task's resolve instruction changes.
C4_ResolveOps ==
    [][ SubGraphPopReturned =>
            LET parent == builder_stack[Len(builder_stack) - 1]
                target == Last(builder_stack).resolve_source
            IN  /\ target # NoTask
                /\ \A t \in ScopeTasks(parent) :
                      /\ Len(tasks'[t].resolve_op) = 1
                      /\ tasks'[t].resolve_op[1].src_task_id = t
                      /\ tasks'[t].resolve_op[1].dest_task_id = target
                /\ \A t \in (Len(tasks) + 1) .. Len(tasks') :
                      tasks'[t].resolve_op = NoResolveOp
                /\ \A t \in (1 .. Len(tasks)) \ ScopeTasks(parent) :
                      tasks'[t].resolve_op = tasks[t].resolve_op
      ]_vars

C4_Witness ==
    /\ last_op.name = "pop_surface"
    /\ fatal = NoPanic
    /\ last_op.builder.establishes_sub_graph
    /\ builder_stack # <<>>
    /\ Last(builder_stack).kind = "Tiled"
    /\ Cardinality(DOMAIN Last(builder_stack).tiles) = 2
    /\ Cardinality({t \in 1 .. Len(tasks) : tasks[t].resolve_op # NoResolveOp}) = 2

\* C5: a returning pop_surface of a sub-graph scope adds, for every parent
\* task P and its replacement N, the edge (resolve source depends on P) and
\* the edge (N depends on the popped scope's chain root, or on its own task
\* when it has no chain root), each once, and no other edge.
C5_SubGraphEdges ==
    [][ SubGraphPopReturned =>
            LET popped == Last(builder_stack)
                parent == builder_stack[Len(builder_stack) - 1]
                now == Last(builder_stack')
                target == popped.resolve_source
                out == IF popped.root_task_id # NoTask THEN popped.root_task_id
                       ELSE popped.render_task_id
            IN  /\ now.kind = parent.kind
                /\ DOMAIN now.tiles = DOMAIN parent.tiles
                /\ LET pairs == IF parent.kind = "Tiled"
                                THEN {<<parent.tiles[k], now.tiles[k]>> :
                                        k \in DOMAIN parent.tiles}
                                ELSE {<<parent.render_task_id, now.render_task_id>>}
                   IN  deps' = deps (+) SetToBag(
                            {<<target, p[1]>> : p \in pairs}
                            \cup {<<p[2], out>> : p \in pairs})
      ]_vars

C5_Witness ==
    /\ last_op.name = "pop_surface"
    /\ fatal = NoPanic
    /\ last_op.builder.establishes_sub_graph
    /\ last_op.builder.root_task_id # NoTask
    /\ builder_stack # <<>>
    /\ Last(builder_stack).kind = "Simple"
    /\ BagCardinality(deps) = 2

\* C6: a returning pop_surface of a sub-graph scope replaces the parent
\* scope's tasks one for one: the parent keeps its kind and its tile keys,
\* every key (or the single slot) maps to a distinct task this pop added to
\* the graph, the pop adds no further task, and no task the parent drew
\* into before the pop is still among its tasks.
C6_ParentTasksReplaced ==
    [][ SubGraphPopReturned =>
            LET parent == builder_stack[Len(builder_stack) - 1]
                now == Last(builder_stack')
                added == (Len(tasks) + 1) .. Len(tasks')
            IN  /\ Len(builder_stack') = Len(builder_stack) - 1
                /\ now.kind = parent.kind
                /\ DOMAIN now.tiles = DOMAIN parent.tiles
                /\ ScopeTasks(now) = added
                /\ Cardinality(added) = Cardinality(ScopeTasks(parent))
                /\ ScopeTasks(now) \cap ScopeTasks(parent) = {}
      ]_vars

C6_Witness ==
    /\ last_op.name = "pop_surface"
    /\ fatal = NoPanic
    /\ last_op.builder.establishes_sub_graph
    /\ last_op.builder.resolve_source # last_op.builder.render_task_id
    /\ builder_stack # <<>>
    /\ Last(builder_stack).kind = "Tiled"
    /\ ScopeTasks(Last(builder_stack)) = {Len(tasks)}

\* C7: a register_resolve_source call made while the scope on top is tiled
\* panics; one that returns was made with a simple scope on top.
C7_RegisterNeedsSimpleTop ==
    last_op.name = "register_resolve_source" =>
        /\ (builder_stack # <<>> /\ Last(builder_stack).kind = "Tiled")
              => fatal = "bug: only supported for non-tiled surfaces"
        /\ fatal = NoPanic
              => (builder_stack # <<>> /\ Last(builder_stack).kind = "Simple")

C7_Witness ==
    /\ last_op.name = "register_resolve_source"
    /\ fatal = "bug: only supported for non-tiled surfaces"
    /\ Last(builder_stack).kind = "Tiled"

\* C8: a register_resolve_source call that returns writes the task id of the
\* scope on top into the resolve source of the flagged scope nearest to the
\* top and changes nothing else of the stack; a call made with a simple
\* scope on top and no flagged scope on the stack panics.
C8_RegisterNearestSubGraph ==
    [][ RegisterCalled =>
            LET flagged == SubGraphScopes(builder_stack)
            IN  /\ (flagged = {} /\ Last(builder_stack).kind = "Simple")
                      => fatal' = "bug: resolve source with no sub-graph"
                /\ fatal' = NoPanic =>
                      /\ flagged # {}
                      /\ builder_stack' =
                            [builder_stack EXCEPT ![Max(flagged)].resolve_source =
                                Last(builder_stack).render_task_id]
      ]_vars

C8_Witness ==
    /\ last_op.name = "register_resolve_source"
    /\ fatal = NoPanic
    /\ Len(builder_stack) = 3
    /\ builder_stack[1].establishes_sub_graph
    /\ builder_stack[1].resolve_source = NoTask
    /\ builder_stack[2].establishes_sub_graph
    /\ builder_stack[2].resolve_source = builder_stack[3].render_task_id
    /\ ~builder_stack[3].establishes_sub_graph

\* C9: a register_resolve_source call whose nearest flagged scope already
\* holds a resolve source panics and leaves the stack as it was, and in no
\* step does a resolve source that a scope on the stack holds change.
C9_ResolveSourceOnce ==
    [][ /\ RegisterCalled =>
            LET flagged == SubGraphScopes(builder_stack)
            IN  (/\ Last(builder_stack).kind = "Simple"
                 /\ flagged # {}
                 /\ builder_stack[Max(flagged)].resolve_source # NoTask)
                => (fatal' # NoPanic /\ builder_stack' = builder_stack)
        /\ \A i \in 1 .. Len(builder_stack) :
              (i <= Len(builder_stack') /\ builder_stack[i].resolve_source # NoTask)
              => builder_stack'[i].resolve_source = builder_stack[i].resolve_source
      ]_vars

C9_Witness ==
    /\ last_op.name = "register_resolve_source"
    /\ fatal = "assertion failed: resolve_source == None"
    /\ Len(builder_stack) >= 2

\* C10: a pop_surface of a scope that establishes a sub-graph and holds no
\* resolve source panics, and leaves the graph's tasks, its edges and the
\* command buffer list as they were.
C10_PopWithoutResolveSource ==
    [][ (/\ last_op'.name = "pop_surface"
         /\ builder_stack # <<>>
         /\ Last(builder_stack).establishes_sub_graph
         /\ Last(builder_stack).resolve_source = NoTask)
        => (/\ fatal' # NoPanic
            /\ tasks' = tasks
            /\ deps' = deps
            /\ cmd_buffers' = cmd_buffers)
      ]_vars

C10_Witness ==
    /\ last_op.name = "pop_surface"
    /\ fatal = "bug: no resolve set"
    /\ last_op.builder.establishes_sub_graph
    /\ last_op.builder.resolve_source = NoTask
    /\ builder_stack # <<>>

----------------------------------------------------------------------------
(* Primitives: the visibility query and push_prim *)

\* Largest number of tasks the caller adds, and of primitives the command
\* buffers hold, in a traversal that pushes primitives.
MaxPrimTasks == 2
MaxPrims == 1

\* Largest number of tasks the caller adds in a traversal that asks which
\* primitives to draw.
MaxQueryTasks == 3

\* PrimitiveInstanceIndex
PrimIndices == {1}

\* Dirty rects of a surface in a traversal that pushes primitives: two rects
\* that share an edge, and the dirty lists a tiled surface can be given
DirtyA == Rect(0, 0, 2, 2)
DirtyB == Rect(2, 0, 4, 2)
PrimRects == {DirtyA, DirtyB}
DirtyLists == {<<>>, <<DirtyA>>, <<DirtyA, DirtyB>>}

\* vis.clip_chain.pic_coverage_rect: over both dirty rects, in DirtyB with an
\* edge on DirtyA, and outside both with an edge on DirtyB
CoverageRects == {Rect(1, 1, 3, 2), Rect(2, 0, 3, 1), Rect(4, 0, 5, 1)}

\* VisibilityState::Visible { tile_rect, sub_slice_index }
TileRects == {Rect(0, 0, 2, 1), Rect(0, 0, 1, 1), Rect(1, 0, 2, 1), Rect(0, 1, 2, 2)}
SubSlices == {0, 1}

\* PrimitiveVisibility
Vis(state, pic_coverage_rect, tile_rect, sub_slice_index) ==
    [state |-> state, pic_coverage_rect |-> pic_coverage_rect,
     tile_rect |-> tile_rect, sub_slice_index |-> sub_slice_index]

VisStates == {"Unset", "Culled", "Visible", "PassThrough"}

\* Box2D::intersects
Intersects(a, b) ==
    a.x0 < b.x1 /\ a.x1 > b.x0 /\ a.y0 < b.y1 /\ a.y1 > b.y0

\* (the dirty list of the outermost scope instead)
ActiveDirtyRects_Bottom(stack) == stack[1]

\* self.dirty_rect_stack.last().unwrap()
ActiveDirtyRects(stack) == Last(stack)

\* .iter().any(|dirty_rect| dirty_rect.intersects(&pic_coverage_rect))
AnyIntersects(dirty_rects, rect) ==
    \E i \in 1 .. Len(dirty_rects) : Intersects(dirty_rects[i], rect)

IsPrimVisibleAndInDirtyRegion(vis) ==
    /\ Running
    /\ last_op' = Op("is_prim_visible_and_in_dirty_region", NoBuilder)
    /\ arg' = [vis |-> vis]
    /\ CASE vis.state = "Unset" ->
              fatal' = "bug: invalid vis state" /\ ret' = NoRet
         [] vis.state = "Culled" ->
              ret' = FALSE /\ UNCHANGED fatal
         [] vis.state = "Visible" ->
              IF dirty_rect_stack = <<>>
              THEN fatal' = "unwrap on None" /\ ret' = NoRet
              ELSE /\ ret' = AnyIntersects(ActiveDirtyRects(dirty_rect_stack),
                                           vis.pic_coverage_rect)
                   /\ UNCHANGED fatal
         [] OTHER ->
              ret' = TRUE /\ UNCHANGED fatal
    /\ UNCHANGED <<builder_stack, dirty_rect_stack, current_cmd_buffers, tasks,
                   deps, cmd_buffers, surfaces, pending_tasks, pushes, pops,
                   finalized, open_rects, early_children, picture_vars>>

\* CommandBuffer::add_prim on the buffer at cmd_buffer_index
AddPrim(cbs, cmd_buffer_index, prim_instance_index) ==
    [cbs EXCEPT ![cmd_buffer_index] = Append(@, prim_instance_index)]

\* (a key that drops the sub-slice)
TileKeyOf_NoSlice(x, y, sub_slice_index) == <<x, y, 0>>

\* TileKey { tile_offset: TileOffset::new(x, y), sub_slice_index }
TileKeyOf(x, y, sub_slice_index) == <<x, y, sub_slice_index>>

\* for y in min.y .. max.y { for x in min.x .. max.x { .. } }: the offsets
\* in the order the loops visit them
TileOffsets(tile_rect) ==
    LET w == IF tile_rect.x1 > tile_rect.x0 THEN tile_rect.x1 - tile_rect.x0 ELSE 0
        h == IF tile_rect.y1 > tile_rect.y0 THEN tile_rect.y1 - tile_rect.y0 ELSE 0
    IN  [i \in 1 .. (w * h) |->
            <<tile_rect.x0 + ((i - 1) % w), tile_rect.y0 + ((i - 1) \div w)>>]

RECURSIVE PushPrimToTiles(_, _, _, _, _)
PushPrimToTiles(cbs, tiles, offsets, sub_slice_index, prim_instance_index) ==
    IF offsets = <<>> THEN cbs
    ELSE LET key == TileKeyOf(Head(offsets)[1], Head(offsets)[2], sub_slice_index)
         IN  PushPrimToTiles(
                 IF key \in DOMAIN tiles
                 THEN AddPrim(cbs, tiles[key], prim_instance_index)
                 ELSE cbs,
                 tiles, Tail(offsets), sub_slice_index, prim_instance_index)

\* CommandBufferTargets::push_prim
TargetsPushPrim(targets, cbs, prim_instance_index, tile_rect, sub_slice_index) ==
    IF targets.kind = "Tiled"
    THEN PushPrimToTiles(cbs, targets.tiles, TileOffsets(tile_rect),
                         sub_slice_index, prim_instance_index)
    ELSE AddPrim(cbs, targets.cmd_buffer_index, prim_instance_index)

RECURSIVE PrimCount(_)
PrimCount(cbs) ==
    IF cbs = <<>> THEN 0 ELSE Len(Head(cbs)) + PrimCount(Tail(cbs))

PushPrim_PassThroughDrawn(prim_instance_index, vis) ==
    /\ Running
    /\ PrimCount(cmd_buffers) < MaxPrims
    /\ last_op' = Op("push_prim", NoBuilder)
    /\ arg' = [prim_instance_index |-> prim_instance_index, vis |-> vis]
    /\ ret' = NoRet
    /\ CASE vis.state = "Unset" ->
              fatal' = "bug: invalid vis state" /\ UNCHANGED cmd_buffers
         [] vis.state \in {"Visible", "PassThrough"} ->
              /\ cmd_buffers' = TargetsPushPrim(current_cmd_buffers, cmd_buffers,
                                                prim_instance_index, vis.tile_rect,
                                                vis.sub_slice_index)
              /\ UNCHANGED fatal
         [] OTHER ->
              UNCHANGED <<fatal, cmd_buffers>>
    /\ UNCHANGED <<builder_stack, dirty_rect_stack, current_cmd_buffers, tasks, deps,
                   surfaces, pending_tasks, pushes, pops, finalized, open_rects,
                   early_children, picture_vars>>

PushPrim(prim_instance_index, vis) ==
    /\ Running
    /\ PrimCount(cmd_buffers) < MaxPrims
    /\ last_op' = Op("push_prim", NoBuilder)
    /\ arg' = [prim_instance_index |-> prim_instance_index, vis |-> vis]
    /\ ret' = NoRet
    /\ CASE vis.state = "Unset" ->
              fatal' = "bug: invalid vis state" /\ UNCHANGED cmd_buffers
         [] vis.state = "Visible" ->
              /\ cmd_buffers' = TargetsPushPrim(current_cmd_buffers, cmd_buffers,
                                                prim_instance_index, vis.tile_rect,
                                                vis.sub_slice_index)
              /\ UNCHANGED fatal
         [] OTHER ->
              UNCHANGED <<fatal, cmd_buffers>>
    /\ UNCHANGED <<builder_stack, dirty_rect_stack, current_cmd_buffers, tasks,
                   deps, surfaces, pending_tasks, pushes, pops, finalized,
                   open_rects, early_children, picture_vars>>

\* The descriptors of the surface the caller has added pending_tasks for,
\* with the dirty lists of a traversal that pushes primitives
PrimDescriptors ==
    {d \in {NewTiledDescriptor(f, l) : f \in TileMaps(pending_tasks), l \in DirtyLists}
            \cup Descriptors(pending_tasks, PrimRects)
        : DescriptorTasks(d) = pending_tasks}

PrimAddTask(kind) == Len(tasks) < MaxPrimTasks /\ CallAddTask(kind)

QueryAddTask(kind) == Len(tasks) < MaxQueryTasks /\ CallAddTask(kind)

\* The visibilities a query is made with, and those a primitive is pushed with
\* (only a Visible primitive's rects and sub-slice are read)
QueryVis ==
    {Vis("Visible", c, Rect(0, 0, 1, 1), 0) : c \in CoverageRects}
    \cup {Vis(st, Rect(1, 1, 3, 2), Rect(0, 0, 1, 1), 0) : st \in VisStates}
PushVis ==
    {Vis("Visible", Rect(1, 1, 3, 2), t, sl) : t \in TileRects, sl \in SubSlices}
    \cup {Vis(st, Rect(1, 1, 3, 2), Rect(0, 0, 1, 1), 0) : st \in VisStates}

NextPrim ==
    \/ PrimAddTask("Picture")
    \/ \E surface_index \in SurfaceIndices, is_sub_graph \in BOOLEAN,
          clipping_rect \in GraphRects, descriptor \in PrimDescriptors :
            CallPushSurface(surface_index, is_sub_graph, clipping_rect, descriptor)
    \/ CallRegisterResolveSource
    \/ CallPopSurface
    \/ \E prim_instance_index \in PrimIndices, vis \in PushVis :
            PushPrim(prim_instance_index, vis)

SpecPrim == Init /\ [][NextPrim]_vars

\* (a child that only the first tile depends on)
TilesGiven_First(tiles) == {CHOOSE key \in DOMAIN tiles : TRUE}

\* for (_, parent_task_id) in tiles: every tile of the scope
TilesGiven(tiles) == DOMAIN tiles

\* SurfaceBuilder::add_child_render_task
AddChildRenderTask(child_task_id) ==
    /\ Running
    /\ last_op' = Op("add_child_render_task", NoBuilder)
    /\ arg' = [child_task_id |-> child_task_id]
    /\ ret' = NoRet
    /\ IF builder_stack = <<>>
       THEN fatal' = "unwrap on None" /\ UNCHANGED deps
       ELSE LET builder == Last(builder_stack)
            IN  CASE builder.kind = "Tiled" ->
                       /\ \E keys \in Orders(TilesGiven(builder.tiles)) :
                            deps' = AddTileDependencies(deps, builder.tiles, keys,
                                                        child_task_id)
                       /\ UNCHANGED fatal
                  [] builder.kind = "Simple" ->
                       /\ deps' = AddDependency(deps, builder.render_task_id,
                                                child_task_id)
                       /\ UNCHANGED fatal
                  [] OTHER ->
                       fatal' = "unreachable" /\ UNCHANGED deps
    /\ early_children' = early_children \cup ({child_task_id} \cap pending_tasks)
    /\ UNCHANGED <<builder_stack, dirty_rect_stack, current_cmd_buffers, tasks,
                   cmd_buffers, surfaces, pending_tasks, pushes, pops, finalized,
                   open_rects, picture_vars>>

\* Largest number of tasks the caller adds, and of dependency edges in the
\* graph when a child task is added, in a traversal that adds child tasks
MaxGraphTasks == 3
MaxDeps == 3

ChildAddTask(kind) == Len(tasks) < MaxGraphTasks /\ CallAddTask(kind)

\* The tasks a surface is given as children: any task of the graph that is not
\* one the surface itself draws to
ChildTasks ==
    (1 .. Len(tasks))
        \ (IF builder_stack = <<>> THEN {} ELSE ScopeTasks(Last(builder_stack)))

\* A primitive that covers every tile
ChildVis == {Vis("Visible", Rect(1, 1, 3, 2), Rect(0, 0, 2, 1), 0)}

\* A traversal that pushes primitives and adds child tasks
NextChild ==
    \/ PrimAddTask("Picture")
    \/ \E surface_index \in SurfaceIndices, is_sub_graph \in BOOLEAN,
          clipping_rect \in GraphRects,
          descriptor \in PendingDescriptors(GraphRects) :
            CallPushSurface(surface_index, is_sub_graph, clipping_rect, descriptor)
    \/ CallRegisterResolveSource
    \/ CallPopSurface
    \/ \E prim_instance_index \in PrimIndices, vis \in ChildVis :
            PushPrim(prim_instance_index, vis)
    \/ \E child_task_id \in ChildTasks :
            BagCardinality(deps) < MaxDeps /\ AddChildRenderTask(child_task_id)

SpecChild == Init /\ [][NextChild]_vars

\* A traversal that adds child tasks to the surfaces it opens, none of them a
\* sub-graph
NextEdges ==
    \/ ChildAddTask("Picture")
    \/ \E surface_index \in SurfaceIndices, clipping_rect \in GraphRects,
          descriptor \in PendingDescriptors(GraphRects) :
            CallPushSurface(surface_index, FALSE, clipping_rect, descriptor)
    \/ CallPopSurface
    \/ \E child_task_id \in ChildTasks :
            BagCardinality(deps) < MaxDeps /\ AddChildRenderTask(child_task_id)

SpecEdges == Init /\ [][NextEdges]_vars

\* A traversal that asks which primitives to draw
NextQuery ==
    \/ QueryAddTask("Picture")
    \/ \E surface_index \in SurfaceIndices, is_sub_graph \in BOOLEAN,
          clipping_rect \in GraphRects, descriptor \in PrimDescriptors :
            CallPushSurface(surface_index, is_sub_graph, clipping_rect, descriptor)
    \/ CallRegisterResolveSource
    \/ CallPopSurface
    \/ \E vis \in QueryVis : IsPrimVisibleAndInDirtyRegion(vis)

SpecQuery == Init /\ [][NextQuery]_vars

\* The tasks of the scopes that are open
OpenTasks ==
    UNION {ScopeTasks(builder_stack[i])
               \cup ({builder_stack[i].root_task_id} \ {NoTask})
           : i \in 1 .. Len(builder_stack)}

\* The tasks a surface may be given as children when no child is a task of
\* an open scope
ClosedTasks == (1 .. Len(tasks)) \ OpenTasks

\* A traversal with sub-graphs that adds child tasks, none of them a task of
\* an open scope
NextCycle ==
    \/ ChildAddTask("Picture")
    \/ \E surface_index \in SurfaceIndices, is_sub_graph \in BOOLEAN,
          clipping_rect \in GraphRects,
          descriptor \in PendingDescriptors(GraphRects) :
            CallPushSurface(surface_index, is_sub_graph, clipping_rect, descriptor)
    \/ CallRegisterResolveSource
    \/ CallPopSurface
    \/ \E child_task_id \in ClosedTasks :
            BagCardinality(deps) < MaxDeps /\ AddChildRenderTask(child_task_id)

SpecCycle == Init /\ [][NextCycle]_vars

\* A primitive of each visibility state, over every tile
GatedVis == {Vis(st, Rect(1, 1, 3, 2), Rect(0, 0, 2, 1), 0) : st \in VisStates}

\* A traversal that asks which primitives to draw and pushes them
NextVis ==
    \/ PrimAddTask("Picture")
    \/ \E surface_index \in SurfaceIndices, is_sub_graph \in BOOLEAN,
          clipping_rect \in GraphRects, descriptor \in PrimDescriptors :
            CallPushSurface(surface_index, is_sub_graph, clipping_rect, descriptor)
    \/ CallRegisterResolveSource
    \/ CallPopSurface
    \/ \E vis \in GatedVis : IsPrimVisibleAndInDirtyRegion(vis)
    \/ \E prim_instance_index \in PrimIndices, vis \in GatedVis :
            PushPrim(prim_instance_index, vis)

SpecVis == Init /\ [][NextVis]_vars

\* A traversal that asks about primitives, pushes them and adds child tasks
\* whether or not a scope is open
NextEmpty ==
    \/ PrimAddTask("Picture")
    \/ \E surface_index \in SurfaceIndices, clipping_rect \in GraphRects,
          descriptor \in PendingDescriptors(GraphRects) :
            CallPushSurface(surface_index, FALSE, clipping_rect, descriptor)
    \/ CallPopSurface
    \/ \E vis \in ChildVis : IsPrimVisibleAndInDirtyRegion(vis)
    \/ \E prim_instance_index \in PrimIndices, vis \in ChildVis :
            PushPrim(prim_instance_index, vis)
    \/ \E child_task_id \in ChildTasks :
            BagCardinality(deps) < MaxDeps /\ AddChildRenderTask(child_task_id)

SpecEmpty == Init /\ [][NextEmpty]_vars

----------------------------------------------------------------------------
(* PicturePrimitive: the traversal's calls *)

\* Largest number of primitives a picture's runs and the traversal's context
\* hold together, and of tasks in the frame's tree.
MaxPicPrims == 1
MaxPicTasks == 3

\* Largest number of tasks the children of a picture hand to it.
MaxChildTasks == 1

\* FilterOpHelpers::is_visible
IsVisible(filter) ==
    IF filter.op = "Opacity" THEN filter.value > 0 ELSE TRUE

\* FilterOpHelpers::is_noop
IsNoop(filter) ==
    CASE filter.op = "Blur" -> filter.radius = 0
      [] filter.op = "Opacity" -> filter.value >= 2
      [] filter.op = "DropShadow" ->
            filter.offset = <<0, 0>> /\ filter.radius = 0
      [] filter.op = "ColorMatrix" -> filter.m = "identity"

\* SceneProperties::resolve_float
ResolveFloat(binding, properties) ==
    IF binding.tag = "Value" THEN binding.value ELSE properties

\* resolve_scene_properties: the composite mode it leaves in the picture
ResolvedMode(composite_mode, properties) ==
    IF composite_mode.tag = "Filter" /\ composite_mode.filter.op = "Opacity"
    THEN Filter(Opacity(composite_mode.filter.binding,
                        ResolveFloat(composite_mode.filter.binding, properties)))
    ELSE composite_mode

\* (a picture that is always reported visible)
ResolvedVisible_Always(composite_mode) == TRUE

\* resolve_scene_properties: its result, for the mode it has resolved
ResolvedVisible(composite_mode) ==
    IF composite_mode.tag = "Filter" THEN IsVisible(composite_mode.filter)
    ELSE TRUE

\* (a Blit drawn into the parent's surface)
CanDrawDirectlyToParentSurface_Blit(composite_mode) ==
    CASE composite_mode.tag = "Filter" -> IsNoop(composite_mode.filter)
      [] composite_mode.tag = "MixBlend" -> FALSE
      [] OTHER -> TRUE

\* can_draw_directly_to_parent_surface
CanDrawDirectlyToParentSurface(composite_mode) ==
    CASE composite_mode.tag = "Filter" -> IsNoop(composite_mode.filter)
      [] composite_mode.tag \in {"Blit", "MixBlend"} -> FALSE
      [] OTHER -> TRUE

IsBlur(composite_mode) ==
    composite_mode.tag = "Filter" /\ composite_mode.filter.op = "Blur"

IsDropShadow(composite_mode) ==
    composite_mode.tag = "Filter" /\ composite_mode.filter.op = "DropShadow"

\* PictureContext
PictureContext(prim_runs, apply_local_clip_rect, inflation_factor, allow_subpixel_aa, has_surface) ==
    [prim_runs |-> prim_runs,
     apply_local_clip_rect |-> apply_local_clip_rect,
     inflation_factor |-> inflation_factor,
     allow_subpixel_aa |-> allow_subpixel_aa,
     has_surface |-> has_surface]

\* Option::<PictureContext>::None: the picture is culled
Culled == <<>>

\* PictureState::new(), the state the traversal collects for pic's children
PictureState(child_tasks, has_non_root_coord_system) ==
    [tasks |-> child_tasks, has_non_root_coord_system |-> has_non_root_coord_system]

PicRunning == fatal = NoPanic

\* Every variable of the surface builder but fatal and last_op
surface_state == <<builder_stack, dirty_rect_stack, current_cmd_buffers, tasks,
                   deps, cmd_buffers, surfaces, pending_tasks, pushes, pops,
                   finalized, open_rects, early_children>>

\* (runs that stay in the picture when the context takes them)
RunsAfterTake_Kept(runs) == runs

\* mem::replace(&mut self.runs, Vec::new()): what it leaves in the picture
RunsAfterTake(runs) == <<>>

TakeContext(parent_allows_subpixel_aa, properties) ==
    /\ PicRunning
    /\ traversal = NoTraversal
    /\ last_op' = Op("take_context", NoBuilder)
    /\ arg' = [parent_allows_subpixel_aa |-> parent_allows_subpixel_aa,
               properties |-> properties]
    /\ LET mode == ResolvedMode(pic.composite_mode, properties)
           can_draw == CanDrawDirectlyToParentSurface(mode)
           inflation_factor ==
               IF IsBlur(mode) THEN BLUR_SAMPLE_SCALE * mode.filter.radius ELSE 0
       IN  IF ~ResolvedVisible(mode)
           THEN /\ pic' = [pic EXCEPT !.composite_mode = mode]
                /\ ret' = Culled
                /\ UNCHANGED traversal
           ELSE /\ pic' = [pic EXCEPT !.composite_mode = mode,
                                      !.runs = RunsAfterTake(pic.runs)]
                /\ ret' = PictureContext(pic.runs, pic.apply_local_clip_rect,
                                         inflation_factor,
                                         parent_allows_subpixel_aa /\ can_draw,
                                         ~can_draw)
                /\ traversal' = [context |-> ret',
                                 state |-> PictureState(<<>>, FALSE)]
    /\ UNCHANGED <<surface_state, fatal, render_tasks, parent_tasks, task_cache>>
    /\ UNCHANGED frame_prepared
    /\ dropped_runs' = <<>>

\* PrimitiveRun { base_prim_index, count }
PrimitiveRun(base_prim_index, count) ==
    [base_prim_index |-> base_prim_index, count |-> count]

\* (a run that is never extended)
AddToRuns_NeverCoalesced(runs, prim_index) ==
    Append(runs, PrimitiveRun(prim_index, 1))

\* add_primitive: the run list it leaves
AddToRuns(runs, prim_index) ==
    IF runs # <<>> /\ Last(runs).base_prim_index + Last(runs).count = prim_index
    THEN [runs EXCEPT ![Len(runs)].count = @ + 1]
    ELSE Append(runs, PrimitiveRun(prim_index, 1))

RECURSIVE RunPrims(_)
RunPrims(runs) ==
    IF runs = <<>> THEN 0 ELSE Head(runs).count + RunPrims(Tail(runs))

\* The primitives held by the picture's runs and the traversal's context
PrimsHeld ==
    RunPrims(pic.runs)
    + (IF traversal = NoTraversal THEN 0 ELSE RunPrims(traversal.context.prim_runs))

AddPrimitive(prim_index) ==
    /\ PicRunning
    /\ last_op' = Op("add_primitive", NoBuilder)
    /\ arg' = [prim_index |-> prim_index]
    /\ ret' = NoRet
    /\ pic' = [pic EXCEPT !.runs = AddToRuns(pic.runs, prim_index)]
    /\ UNCHANGED <<surface_state, fatal, traversal, render_tasks, parent_tasks,
                   task_cache>>
    /\ UNCHANGED frame_prepared
    /\ dropped_runs' = <<>>

\* LayoutRect { origin, size } as [x, y, w, h], and Option::None of one
LayoutRect(x, y, w, h) == [x |-> x, y |-> y, w |-> w, h |-> h]
LayoutRectZero == LayoutRect(0, 0, 0, 0)
NoLocalRect == <<>>

\* TypedRect::inflate
Inflate(rect, width, height) ==
    LayoutRect(rect.x - width, rect.y - height,
               rect.w + width + width, rect.h + height + height)

\* (a padding that is not rounded up)
InflateSize_NotRounded(blur_radius) == blur_radius * BLUR_SAMPLE_SCALE

\* (blur_radius * BLUR_SAMPLE_SCALE).ceil()
InflateSize(blur_radius) == Ceil(blur_radius * BLUR_SAMPLE_SCALE)

\* (an absent local rect that is taken for the zero rect in every mode)
LocalRectNeedsDirect_Unchecked(composite_mode) == FALSE

\* assert!(self.can_draw_directly_to_parent_surface()) fails
LocalRectNeedsDirect(composite_mode) ==
    ~CanDrawDirectlyToParentSurface(composite_mode)

\* A child of pic adds a task to the frame and hands it to the state the
\* traversal collects for pic.
AddChildTask ==
    /\ PicRunning
    /\ traversal # NoTraversal
    /\ last_op' = Op("add_child_task", NoBuilder)
    /\ arg' = NoArg
    /\ ret' = NoRet
    /\ render_tasks' = Append(render_tasks, [kind |-> "Child", children |-> <<>>])
    /\ traversal' = [traversal EXCEPT
                        !.state.tasks = Append(@, Len(render_tasks) + 1)]
    /\ UNCHANGED <<surface_state, fatal, pic, parent_tasks, task_cache>>
    /\ UNCHANGED frame_prepared
    /\ dropped_runs' = <<>>

\* (runs added during the traversal that are kept after the context's runs)
RestoredRuns_Extended(prim_runs, runs) == prim_runs \o runs

\* self.runs = context.prim_runs
RestoredRuns(prim_runs, runs) == prim_runs

RestoreContext(has_non_root_coord_system, local_rect) ==
    /\ PicRunning
    /\ traversal # NoTraversal
    /\ last_op' = Op("restore_context", NoBuilder)
    /\ arg' = [context |-> traversal.context,
               state |-> PictureState(traversal.state.tasks,
                                      has_non_root_coord_system),
               local_rect |-> local_rect]
    /\ traversal' = NoTraversal
    /\ pic' = [pic EXCEPT !.runs = RestoredRuns(traversal.context.prim_runs, pic.runs),
                          !.state = arg'.state]
    /\ dropped_runs' = pic.runs
    /\ IF local_rect # NoLocalRect
       THEN /\ ret' = IF IsBlur(pic.composite_mode) \/ IsDropShadow(pic.composite_mode)
                      THEN LET inflate_size ==
                                   InflateSize(pic.composite_mode.filter.radius)
                           IN  Inflate(local_rect, inflate_size, inflate_size)
                      ELSE local_rect
            /\ UNCHANGED fatal
       ELSE IF LocalRectNeedsDirect(pic.composite_mode)
            THEN /\ fatal' = "assertion failed: self.can_draw_directly_to_parent_surface()"
                 /\ ret' = NoRet
            ELSE /\ ret' = LayoutRectZero
                 /\ UNCHANGED fatal
    /\ UNCHANGED <<surface_state, render_tasks, parent_tasks, task_cache>>
    /\ UNCHANGED frame_prepared

\* (a state that stays in the picture when it is taken)
StateAfterTake_Kept(state) == state

\* self.state.take(): what it leaves in the picture
StateAfterTake(state) == NoState

\* self.state.take() is Some: expect("bug: no state present!") passes
StatePresent(state) == state # NoState

TakeState ==
    /\ PicRunning
    /\ last_op' = Op("take_state", NoBuilder)
    /\ arg' = NoArg
    /\ IF StatePresent(pic.state)
       THEN /\ ret' = pic.state
            /\ pic' = [pic EXCEPT !.state = StateAfterTake(pic.state)]
            /\ UNCHANGED fatal
       ELSE /\ fatal' = "bug: no state present!"
            /\ ret' = NoRet
            /\ UNCHANGED pic
    /\ UNCHANGED <<surface_state, traversal, render_tasks, parent_tasks,
                   task_cache>>
    /\ UNCHANGED frame_prepared
    /\ dropped_runs' = <<>>

----------------------------------------------------------------------------
(* PicturePrimitive::prepare_for_render *)

\* frame_context.device_pixel_scale
DevicePixelScale == 1

\* DeviceIntRect { origin, size } as [x, y, w, h], in whole pixels
DeviceRect(x, y, w, h) == [x |-> x, y |-> y, w |-> w, h |-> h]

\* prim_metadata.clipped_world_rect (None for a picture that is off screen)
\* and the world rect of the whole picture, both already in device pixels
NoWorldRect == <<>>
ClippedRects == {NoWorldRect, DeviceRect(2, 0, 4, 4)}
UnclippedRects == {DeviceRect(0, 0, 8, 4)}

\* TypedRect::intersection: None (NoWorldRect) when the rects do not overlap
Intersection(a, b) ==
    LET x0 == IF a.x > b.x THEN a.x ELSE b.x
        y0 == IF a.y > b.y THEN a.y ELSE b.y
        x1 == IF a.x + a.w < b.x + b.w THEN a.x + a.w ELSE b.x + b.w
        y1 == IF a.y + a.h < b.y + b.h THEN a.y + a.h ELSE b.y + b.h
    IN  IF x0 < x1 /\ y0 < y1 THEN DeviceRect(x0, y0, x1 - x0, y1 - y0)
        ELSE NoWorldRect

\* (blur_std_deviation * BLUR_SAMPLE_SCALE).ceil() as i32, in pixels
BlurRange(blur_std_deviation) ==
    Ceil(blur_std_deviation * BLUR_SAMPLE_SCALE) \div 2

\* f32::round of n halves (n >= 0), in halves
Round(n) == 2 * ((n + 1) \div 2)

\* calculate_screen_uv for one corner of the rendered rect: the centre of
\* the UV space when the corner does not project, else the corner's own UV
CalculateScreenUv(projects, corner) ==
    IF ~projects THEN <<1, 1>> ELSE corner

\* calculate_uv_rect_kind
CalculateUvRectKind(projects) ==
    [top_left |-> CalculateScreenUv(projects, <<0, 0>>),
     top_right |-> CalculateScreenUv(projects, <<2, 0>>),
     bottom_left |-> CalculateScreenUv(projects, <<0, 2>>),
     bottom_right |-> CalculateScreenUv(projects, <<2, 2>>)]

\* RenderTask::new_picture
NewPicture(size, unclipped_size, content_origin, children, uv_rect_kind) ==
    [kind |-> "Picture", children |-> children, size |-> size,
     unclipped_size |-> unclipped_size, content_origin |-> content_origin,
     uv_rect_kind |-> uv_rect_kind, saved |-> FALSE]

\* RenderTask::mark_for_saving
MarkForSaving(task) == [task EXCEPT !.saved = TRUE]

\* RenderTask::new_blur
NewBlur(blur_std_deviation, src_task_id) ==
    [kind |-> "Blur", children |-> <<src_task_id>>,
     blur_std_deviation |-> blur_std_deviation]

\* RenderTask::new_readback
NewReadback(screen_rect) ==
    [kind |-> "Readback", children |-> <<>>, screen_rect |-> screen_rect]

\* PictureSurface
SurfaceRenderTask(render_task_id) == [tag |-> "RenderTask", id |-> render_task_id]
SurfaceTextureCache(cache_item) == [tag |-> "TextureCache", cache_item |-> cache_item]

\* RenderTaskCacheKey { size, kind: Picture(PictureCacheKey { .. }) }
PictureCacheKey(size, unclipped_size, pic_relative_render_rect) ==
    [size |-> size, scene_id |-> 1, picture_id |-> 1,
     unclipped_size |-> unclipped_size,
     pic_relative_render_rect |-> pic_relative_render_rect]

SizeOf(rect) == <<rect.w, rect.h>>
OriginOf(rect) == <<rect.x, rect.y>>

\* The outcome of a branch of prepare_for_render: the picture, the frame's
\* tasks, the parent's task list, the cache and the panic it ends with
Prepared(picture, tree, parent, cache, panic) ==
    /\ pic' = picture
    /\ render_tasks' = tree
    /\ parent_tasks' = parent
    /\ task_cache' = cache
    /\ fatal' = panic

\* A panic after the state was taken and before anything else was written
PreparePanics(picture, message) ==
    Prepared(picture, render_tasks, parent_tasks, task_cache, message)

\* The picture task over device_rect and the blur task that reads it
BlurTasks(device_rect, unclipped, children, projects, blur_std_deviation, saved) ==
    LET picture_task == NewPicture(SizeOf(device_rect), SizeOf(unclipped),
                                   OriginOf(device_rect), children,
                                   CalculateUvRectKind(projects))
    IN  <<IF saved THEN MarkForSaving(picture_task) ELSE picture_task,
          NewBlur(blur_std_deviation, Len(render_tasks) + 1)>>

\* (a task that is not handed to the parent)
PushTask_Dropped(task_list, render_task_id) == task_list

\* pic_state.tasks.push(render_task_id)
PushTask(task_list, render_task_id) == Append(task_list, render_task_id)

\* (a blur that is cached whatever coordinate systems it contains)
CacheEligible_Always(children) == TRUE

\* The blur goes through the render task cache: the else branch of
\* `if pic_state_for_children.has_non_root_coord_system`
CacheEligible(children) == ~children.has_non_root_coord_system

\* clipped.inflate(blur_range, blur_range).intersection(&unclipped.to_i32())
BlurDeviceRect(clipped, unclipped, blur_range) ==
    Intersection(Inflate(clipped, blur_range, blur_range), unclipped)

\* (a key that holds the render rect's place on the screen)
PicRelativeRenderRect_Absolute(device_rect, unclipped) == device_rect

\* pic_relative_render_rect: the render rect relative to the unclipped rect
PicRelativeRenderRect(device_rect, unclipped) ==
    DeviceRect(device_rect.x - unclipped.x, device_rect.y - unclipped.y,
               device_rect.w, device_rect.h)

\* The RenderTaskCacheKey of a blur drawn over device_rect
BlurCacheKey(device_rect, unclipped) ==
    PictureCacheKey(SizeOf(device_rect), SizeOf(unclipped),
                    PicRelativeRenderRect(device_rect, unclipped))

\* The Blur branch
PrepareBlur(picture, children, clipped, unclipped, projects) ==
    LET blur_std_deviation == picture.composite_mode.filter.radius * DevicePixelScale
        blur_range == BlurRange(blur_std_deviation)
        device_rect == BlurDeviceRect(clipped, unclipped, blur_range)
        render_task_id == Len(render_tasks) + 2
    IN  IF device_rect = NoWorldRect
        THEN PreparePanics(picture, "unwrap on None")
        ELSE LET pair == BlurTasks(device_rect, unclipped, children.tasks,
                                   projects, blur_std_deviation, FALSE)
                 key == BlurCacheKey(device_rect, unclipped)
             IN  IF ~CacheEligible(children)
                 THEN Prepared([picture EXCEPT
                                   !.surface = SurfaceRenderTask(render_task_id)],
                               render_tasks \o pair,
                               PushTask(parent_tasks, render_task_id),
                               task_cache, NoPanic)
                 ELSE IF key \in task_cache
                 THEN Prepared([picture EXCEPT !.surface = SurfaceTextureCache(key)],
                               render_tasks, parent_tasks, task_cache, NoPanic)
                 ELSE Prepared([picture EXCEPT !.surface = SurfaceTextureCache(key)],
                               render_tasks \o pair,
                               PushTask(parent_tasks, render_task_id),
                               task_cache \cup {key}, NoPanic)

\* The DropShadow branch
PrepareDropShadow(picture, children, clipped, unclipped, projects) ==
    LET blur_std_deviation == picture.composite_mode.filter.radius * DevicePixelScale
        blur_range == BlurRange(blur_std_deviation)
        device_rect == BlurDeviceRect(clipped, unclipped, blur_range)
        picture_task_id == Len(render_tasks) + 1
        render_task_id == Len(render_tasks) + 2
    IN  IF device_rect = NoWorldRect
        THEN PreparePanics(picture, "unwrap on None")
        ELSE Prepared([picture EXCEPT
                          !.secondary_render_task_id = picture_task_id,
                          !.surface = SurfaceRenderTask(render_task_id),
                          !.extra_gpu_data = "drop_shadow"],
                      render_tasks \o BlurTasks(device_rect, unclipped, children.tasks,
                                                projects, Round(blur_std_deviation),
                                                TRUE),
                      PushTask(parent_tasks, render_task_id),
                      task_cache, NoPanic)

\* The MixBlend branch: the readback task is added before the picture task
PrepareMixBlend(picture, children, clipped, unclipped, projects) ==
    LET readback_task_id == Len(render_tasks) + 1
        render_task_id == Len(render_tasks) + 2
    IN  Prepared([picture EXCEPT
                     !.secondary_render_task_id = readback_task_id,
                     !.surface = SurfaceRenderTask(render_task_id)],
                 render_tasks \o
                     <<NewReadback(clipped),
                       NewPicture(SizeOf(clipped), SizeOf(unclipped), OriginOf(clipped),
                                  children.tasks, CalculateUvRectKind(projects))>>,
                 PushTask(PushTask(parent_tasks, readback_task_id), render_task_id),
                 task_cache, NoPanic)

\* The branches Filter(filter), and Blit | None: one picture task over the
\* clipped rect
PreparePlain(picture, children, clipped, unclipped, projects) ==
    LET render_task_id == Len(render_tasks) + 1
        is_color_matrix ==
            /\ picture.composite_mode.tag = "Filter"
            /\ picture.composite_mode.filter.op = "ColorMatrix"
    IN  Prepared([picture EXCEPT
                     !.surface = SurfaceRenderTask(render_task_id),
                     !.extra_gpu_data =
                         IF is_color_matrix THEN "color_matrix" ELSE @],
                 Append(render_tasks,
                        NewPicture(SizeOf(clipped), SizeOf(unclipped), OriginOf(clipped),
                                   children.tasks, CalculateUvRectKind(projects))),
                 PushTask(parent_tasks, render_task_id),
                 task_cache, NoPanic)

\* (a surface that a picture drawn directly keeps from its last frame)
DirectSurface_Kept(surface) == surface

\* self.surface = None, in the branch of a picture drawn directly
DirectSurface(surface) == NoSurface

PrepareForRender(clipped_world_rect, maps_local_to_pic, maps_pic_to_world, unclipped, projects) ==
    /\ PicRunning
    /\ last_op' = Op("prepare_for_render", NoBuilder)
    /\ arg' = [clipped_world_rect |-> clipped_world_rect,
               maps_local_to_pic |-> maps_local_to_pic,
               maps_pic_to_world |-> maps_pic_to_world,
               unclipped |-> unclipped, projects |-> projects]
    /\ ret' = NoRet
    /\ IF ~StatePresent(pic.state)
       THEN PreparePanics(pic, "bug: no state present!")
       ELSE LET pic_state_for_children == pic.state
                picture == [pic EXCEPT !.state = StateAfterTake(pic.state)]
                mode == pic.composite_mode
            IN  IF CanDrawDirectlyToParentSurface(mode)
                THEN Prepared([picture EXCEPT !.surface = DirectSurface(pic.surface)],
                              render_tasks,
                              parent_tasks \o pic_state_for_children.tasks,
                              task_cache, NoPanic)
                ELSE IF clipped_world_rect = NoWorldRect
                THEN PreparePanics(picture,
                                   "bug: trying to draw an off-screen picture!?")
                ELSE IF ~maps_local_to_pic \/ ~maps_pic_to_world
                THEN PreparePanics(picture, ProjectionPanic)
                ELSE CASE IsBlur(mode) ->
                            PrepareBlur(picture, pic_state_for_children,
                                        clipped_world_rect, unclipped, projects)
                       [] IsDropShadow(mode) ->
                            PrepareDropShadow(picture, pic_state_for_children,
                                              clipped_world_rect, unclipped, projects)
                       [] mode.tag = "MixBlend" ->
                            PrepareMixBlend(picture, pic_state_for_children,
                                            clipped_world_rect, unclipped, projects)
                       [] OTHER ->
                            PreparePlain(picture, pic_state_for_children,
                                         clipped_world_rect, unclipped, projects)
    /\ frame_prepared' = TRUE
    /\ dropped_runs' = <<>>
    /\ UNCHANGED <<surface_state, traversal>>

\* The frame's tree has room for one more task of a child, and the list of
\* the children's tasks for one more id
ChildTaskFits ==
    /\ traversal # NoTraversal
    /\ Len(render_tasks) < MaxPicTasks
    /\ Len(traversal.state.tasks) < MaxChildTasks

\* The frame's tree has room for the two tasks a branch adds at most
TreeHasRoom == Len(render_tasks) + 2 <= MaxPicTasks

\* The layout rects, scene property values and primitive indices of the calls
LocalRects == {NoLocalRect, LayoutRect(4, 4, 8, 8)}
PicPrimIndices == {5, 6}

NextPic ==
    \/ \E parent_allows_subpixel_aa \in BOOLEAN, properties \in OpacityValues :
            TakeContext(parent_allows_subpixel_aa, properties)
    \/ \E prim_index \in PicPrimIndices :
            PrimsHeld < MaxPicPrims /\ AddPrimitive(prim_index)
    \/ ChildTaskFits /\ AddChildTask
    \/ \E has_non_root_coord_system \in BOOLEAN, local_rect \in LocalRects :
            RestoreContext(has_non_root_coord_system, local_rect)
    \/ TakeState
    \/ \E clipped_world_rect \in ClippedRects, maps_local_to_pic \in BOOLEAN,
          maps_pic_to_world \in BOOLEAN, unclipped \in UnclippedRects,
          projects \in BOOLEAN :
            /\ TreeHasRoom
            /\ PrepareForRender(clipped_world_rect, maps_local_to_pic,
                                maps_pic_to_world, unclipped, projects)

InitPic ==
    SurfaceBuilderNew /\ \E composite_mode \in CompositeModes : PictureNew(composite_mode)

SpecPic == InitPic /\ [][NextPic]_vars

\* Largest number of primitives added to a picture that is entered and left
MaxDropPrims == 2

\* A picture that is given primitives before and while it is traversed
NextDrop ==
    \/ \E parent_allows_subpixel_aa \in BOOLEAN, properties \in OpacityValues :
            TakeContext(parent_allows_subpixel_aa, properties)
    \/ \E prim_index \in PicPrimIndices :
            PrimsHeld < MaxDropPrims /\ AddPrimitive(prim_index)
    \/ \E has_non_root_coord_system \in BOOLEAN, local_rect \in LocalRects :
            RestoreContext(has_non_root_coord_system, local_rect)

SpecDrop == InitPic /\ [][NextDrop]_vars

\* The frame builder starts the next frame: the frame gets a render task tree
\* of its own and the picture's parent a new state; the picture and the render
\* task cache live on.
NewFrame ==
    /\ PicRunning
    /\ traversal = NoTraversal
    /\ last_op' = Op("new_frame", NoBuilder)
    /\ arg' = NoArg
    /\ ret' = NoRet
    /\ render_tasks' = <<>>
    /\ parent_tasks' = <<>>
    /\ frame_prepared' = FALSE
    /\ dropped_runs' = <<>>
    /\ UNCHANGED <<surface_state, fatal, pic, traversal, task_cache>>

\* A picture that is entered, left and prepared frame after frame
NextFrames ==
    \/ \E properties \in OpacityValues : TakeContext(TRUE, properties)
    \/ ChildTaskFits /\ AddChildTask
    \/ \E has_non_root_coord_system \in BOOLEAN :
            RestoreContext(has_non_root_coord_system, LayoutRect(4, 4, 8, 8))
    \/ \E clipped_world_rect \in ClippedRects, maps_local_to_pic \in BOOLEAN,
          maps_pic_to_world \in BOOLEAN, unclipped \in UnclippedRects,
          projects \in BOOLEAN :
            /\ TreeHasRoom
            /\ PrepareForRender(clipped_world_rect, maps_local_to_pic, maps_pic_to_world, unclipped, projects)
    \/ NewFrame

SpecFrames == InitPic /\ [][NextFrames]_vars

\* Largest number of tasks in the frame's tree, and of tasks the children hand
\* to the picture, in the frames of a picture that may be drawn directly
MaxDirectTasks == 2

\* Frames of a picture whose children hand it tasks
NextDirect ==
    \/ \E properties \in OpacityValues : TakeContext(TRUE, properties)
    \/ /\ traversal # NoTraversal
       /\ Len(render_tasks) < MaxDirectTasks
       /\ AddChildTask
    \/ RestoreContext(FALSE, LayoutRect(4, 4, 8, 8))
    \/ \E clipped_world_rect \in ClippedRects \ {NoWorldRect},
          unclipped \in UnclippedRects :
            /\ \/ Len(render_tasks) + 2 <= MaxDirectTasks
               \/ CanDrawDirectlyToParentSurface(pic.composite_mode)
            /\ PrepareForRender(clipped_world_rect, TRUE, TRUE, unclipped, TRUE)
    \/ NewFrame

SpecDirect == InitPic /\ [][NextDirect]_vars

\* Largest number of primitives added to a picture that is being built, and
\* the indices they are added with
MaxRunPrims == 4
RunIndices == {5, 6, 7, 10}

\* The scene builder fills a new picture
NextRuns ==
    \E prim_index \in RunIndices :
        RunPrims(pic.runs) < MaxRunPrims /\ AddPrimitive(prim_index)

SpecRuns == Init /\ [][NextRuns]_vars

\* The rects a blurred picture is given from frame to frame as it scrolls
KeyClippedRects ==
    {DeviceRect(x, y, w, 2) : x \in {0, 2, 5}, y \in {0, 1}, w \in {2, 4}}
KeyUnclippedRects ==
    {DeviceRect(x, y, w, h) : x \in {0, 1}, y \in {0, 1}, w \in {6, 8}, h \in {4, 5}}

\* The Blur branch of prepare_for_render up to its request to the render task
\* cache: the key it builds from the clipped and unclipped rects
BuildBlurCacheKey(clipped, unclipped, blur_radius) ==
    LET blur_range == BlurRange(blur_radius * DevicePixelScale)
        device_rect == BlurDeviceRect(clipped, unclipped, blur_range)
    IN  /\ PicRunning
        /\ device_rect # NoWorldRect
        /\ last_op' = Op("blur_cache_key", NoBuilder)
        /\ arg' = [clipped |-> clipped, unclipped |-> unclipped,
                   blur_radius |-> blur_radius]
        /\ ret' = BlurCacheKey(device_rect, unclipped)
        /\ UNCHANGED <<surface_state, fatal, picture_vars>>

NextKey ==
    \E clipped \in KeyClippedRects, unclipped \in KeyUnclippedRects,
       blur_radius \in BlurRadii \ {0} :
        BuildBlurCacheKey(clipped, unclipped, blur_radius)

SpecKey == Init /\ [][NextKey]_vars

\* C11: push_surface marks the scope it pushes establishes_sub_graph =
\* is_sub_graph whatever the kind of the descriptor (so that the pop of a tiled
\* scope pushed with is_sub_graph = true would reach the sub-graph branch and
\* be fatal there).
C11_SubGraphFlagIsArgument ==
    (last_op.name = "push_surface" /\ fatal = NoPanic)
        => Last(builder_stack).establishes_sub_graph = arg.is_sub_graph

\* Whether two rects have a unit cell in common
SharesCell(a, b) ==
    \E x \in 0 .. 5, y \in 0 .. 5 :
        /\ a.x0 <= x /\ x < a.x1 /\ a.y0 <= y /\ y < a.y1
        /\ b.x0 <= x /\ x < b.x1 /\ b.y0 <= y /\ y < b.y1

QueryReturned ==
    last_op.name = "is_prim_visible_and_in_dirty_region" /\ fatal = NoPanic

\* C12: for a Visible primitive the query returns true exactly when the
\* primitive's coverage rect overlaps at least one rect of the dirty list given
\* to the push_surface of the innermost scope now open, whatever scopes were
\* pushed and popped before.
C12_VisibleInDirtyRegion ==
    (QueryReturned /\ arg.vis.state = "Visible")
        => /\ open_rects # <<>>
           /\ ret = (\E i \in 1 .. Len(Last(open_rects)) :
                        SharesCell(Last(open_rects)[i], arg.vis.pic_coverage_rect))

\* A query answered false inside a nested scope, after a pop, for a primitive
\* that overlaps a dirty rect of the enclosing scope
C12_Witness ==
    /\ QueryReturned /\ arg.vis.state = "Visible" /\ ret = FALSE
    /\ pops >= 1 /\ Len(open_rects) = 2
    /\ \E i \in 1 .. Len(open_rects[1]) :
          SharesCell(open_rects[1][i], arg.vis.pic_coverage_rect)

\* The command buffers a Visible primitive with this tile rect and sub-slice
\* belongs in, given the active target
PrimTargets(targets, tile_rect, sub_slice_index) ==
    IF targets.kind = "Simple" THEN {targets.cmd_buffer_index}
    ELSE {targets.tiles[k] : k \in
            {key \in DOMAIN targets.tiles :
                /\ key[3] = sub_slice_index
                /\ tile_rect.x0 <= key[1] /\ key[1] < tile_rect.x1
                /\ tile_rect.y0 <= key[2] /\ key[2] < tile_rect.y1}}

\* C13: push_prim of a Visible primitive appends it once to the command
\* buffer of every registered tile (x, y, s) with (x, y) in the half-open tile
\* range, or to the single buffer of a simple target, and leaves every other
\* command buffer as it was.
C13_PushPrimFanOut ==
    [][(last_op'.name = "push_prim" /\ arg'.vis.state = "Visible")
        => /\ fatal' = NoPanic
           /\ Len(cmd_buffers') = Len(cmd_buffers)
           /\ \A i \in 1 .. Len(cmd_buffers) :
                cmd_buffers'[i] =
                    IF i \in PrimTargets(current_cmd_buffers, arg'.vis.tile_rect,
                                         arg'.vis.sub_slice_index)
                    THEN Append(cmd_buffers[i], arg'.prim_instance_index)
                    ELSE cmd_buffers[i]]_vars

\* A primitive pushed to one of two registered tiles: the other one lies
\* outside its tile range
C13_Witness ==
    /\ last_op.name = "push_prim" /\ arg.vis.state = "Visible"
    /\ current_cmd_buffers.kind = "Tiled"
    /\ \E a, b \in DOMAIN current_cmd_buffers.tiles :
          /\ cmd_buffers[current_cmd_buffers.tiles[a]] = <<arg.prim_instance_index>>
          /\ cmd_buffers[current_cmd_buffers.tiles[b]] = <<>>

TakeContextReturned == last_op.name = "take_context" /\ ret # Culled

\* C15: a picture without composite mode can draw directly to its parent's
\* surface and a successful take_context returns has_surface = false; a Blit or
\* MixBlend picture cannot, and take_context returns has_surface = true; in
\* every mode has_surface is the negation of
\* can_draw_directly_to_parent_surface().
C15_HasSurface ==
    /\ pic.composite_mode.tag = "None"
            => CanDrawDirectlyToParentSurface(pic.composite_mode)
    /\ pic.composite_mode.tag \in {"Blit", "MixBlend"}
            => ~CanDrawDirectlyToParentSurface(pic.composite_mode)
    /\ TakeContextReturned
            => /\ ret.has_surface = ~CanDrawDirectlyToParentSurface(pic.composite_mode)
               /\ pic.composite_mode.tag = "None" => ~ret.has_surface
               /\ pic.composite_mode.tag \in {"Blit", "MixBlend"} => ret.has_surface

C15_Witness ==
    TakeContextReturned /\ pic.composite_mode = Blit /\ ret.has_surface
    /\ ret.prim_runs # <<>>

\* C16: take_context returns culled exactly when the picture's opacity
\* filter resolves to an invisible value, which needs a Filter composite mode;
\* a culled picture keeps its run list and no context is produced.
C16_CulledIffInvisible ==
    [][last_op'.name = "take_context"
        => /\ (ret' = Culled) <=>
                  /\ pic'.composite_mode.tag = "Filter"
                  /\ pic'.composite_mode.filter.op = "Opacity"
                  /\ pic'.composite_mode.filter.value <= 0
           /\ ret' = Culled
                => /\ pic.composite_mode.tag = "Filter"
                   /\ pic'.runs = pic.runs
                   /\ traversal' = NoTraversal]_vars

\* A picture with a run, culled because its bound opacity resolved to zero
C16_Witness ==
    /\ last_op.name = "take_context" /\ ret = Culled
    /\ pic.runs # <<>>
    /\ pic.composite_mode.filter.binding.tag = "Binding"

\* The primitive indices a run list stands for, in order
RECURSIVE Expand(_)
Expand(runs) ==
    IF runs = <<>> THEN <<>>
    ELSE [i \in 1 .. Head(runs).count |-> Head(runs).base_prim_index + i - 1]
         \o Expand(Tail(runs))

\* C17: every add_primitive appends its index to the sequence the runs
\* stand for, extends the last run exactly when last.base + last.count is the
\* index, and leaves no two consecutive runs contiguous; 5, 6, 7, 10 give the
\* runs (5, 3), (10, 1).
C17_RunsCoalesce ==
    [][last_op'.name = "add_primitive"
        => /\ Expand(pic'.runs) = Append(Expand(pic.runs), arg'.prim_index)
           /\ (Len(pic'.runs) = Len(pic.runs)) <=>
                  /\ pic.runs # <<>>
                  /\ Last(pic.runs).base_prim_index + Last(pic.runs).count
                        = arg'.prim_index
           /\ \A k \in 1 .. (Len(pic'.runs) - 1) :
                  pic'.runs[k].base_prim_index + pic'.runs[k].count
                    # pic'.runs[k + 1].base_prim_index
           /\ Expand(pic'.runs) = <<5, 6, 7, 10>>
                => pic'.runs = <<PrimitiveRun(5, 3), PrimitiveRun(10, 1)>>]_vars

C17_Witness ==
    /\ last_op.name = "add_primitive"
    /\ Expand(pic.runs) = <<5, 6, 7, 10>>
    /\ Len(pic.runs) = 2

RestoreReturned == last_op.name = "restore_context" /\ fatal = NoPanic

\* The least whole number of layout units (counted in halves) that is not
\* below radius times BLUR_SAMPLE_SCALE
BlurPad(radius) ==
    CHOOSE p \in 0 .. (2 * BLUR_SAMPLE_SCALE * radius + 2) :
        /\ p % 2 = 0
        /\ p >= BLUR_SAMPLE_SCALE * radius
        /\ p - 2 < BLUR_SAMPLE_SCALE * radius

\* C18: restore_context with a local rect returns that rect moved out by
\* ceil(blur_radius x BLUR_SAMPLE_SCALE) on each of its four sides for a Blur or
\* DropShadow filter, and returns the rect itself for every other mode.
C18_RestoreInflates ==
    (RestoreReturned /\ arg.local_rect # NoLocalRect)
        => LET r == arg.local_rect
               mode == pic.composite_mode
           IN  IF mode.tag = "Filter" /\ mode.filter.op \in {"Blur", "DropShadow"}
               THEN LET pad == BlurPad(mode.filter.radius)
                    IN  /\ ret.x = r.x - pad
                        /\ ret.y = r.y - pad
                        /\ ret.x + ret.w = r.x + r.w + pad
                        /\ ret.y + ret.h = r.y + r.h + pad
               ELSE ret = r

\* A drop shadow of radius 1/2: every side moves out by 2 (4 halves)
C18_Witness ==
    /\ RestoreReturned /\ arg.local_rect # NoLocalRect
    /\ IsDropShadow(pic.composite_mode)
    /\ pic.composite_mode.filter.radius = 1
    /\ ret.w = arg.local_rect.w + 8

\* C19: restore_context without a local rect returns the zero rect when the
\* picture can draw directly to its parent's surface, and panics when it
\* cannot: for Blit, MixBlend and a filter that is not a no-op.
C19_AbsentLocalRect ==
    (last_op.name = "restore_context" /\ arg.local_rect = NoLocalRect)
        => /\ IF CanDrawDirectlyToParentSurface(pic.composite_mode)
              THEN fatal = NoPanic /\ ret = [x |-> 0, y |-> 0, w |-> 0, h |-> 0]
              ELSE fatal # NoPanic
           /\ pic.composite_mode.tag \in {"Blit", "MixBlend"} => fatal # NoPanic
           /\ pic.composite_mode.tag = "None" => fatal = NoPanic

C19_Witness ==
    /\ last_op.name = "restore_context" /\ arg.local_rect = NoLocalRect
    /\ pic.composite_mode = MixBlend
    /\ fatal # NoPanic

\* C20: the picture's state is absent on a new picture, present after every
\* restore_context, absent again after take_state or prepare_for_render, and
\* untouched by every other call; take_state and prepare_for_render panic with
\* "bug: no state present!" exactly when the state is absent.
C20_StateLifetime ==
    /\ [](last_op.name = "new" => pic.state = NoState)
    /\ [][/\ last_op'.name = "restore_context" => pic'.state # NoState
          /\ last_op'.name \in {"take_state", "prepare_for_render"}
                => /\ pic'.state = NoState
                   /\ (fatal' = "bug: no state present!") <=> (pic.state = NoState)
          /\ last_op'.name \notin {"restore_context", "take_state",
                                   "prepare_for_render"}
                => pic'.state = pic.state]_vars

\* A prepare_for_render that follows another one without a restore_context
\* in between
C20_Witness ==
    /\ last_op.name = "prepare_for_render"
    /\ fatal = "bug: no state present!"
    /\ pic.surface # NoSurface
    /\ traversal = NoTraversal

\* C21: in every frame the picture's surface is None until prepare_for_render
\* has run for that frame; in particular it does not carry the surface assigned
\* in the frame before into the enter and exit of the next one.
C21_SurfaceNoneUntilPrepared ==
    ~frame_prepared => pic.surface = NoSurface

PrepareReturned ==
    last_op.name = "prepare_for_render" /\ fatal = NoPanic

\* prepare_for_render took a branch that allocates a surface, and returned
PrepareAllocated ==
    /\ last_op'.name = "prepare_for_render" /\ fatal' = NoPanic
    /\ ~CanDrawDirectlyToParentSurface(pic.composite_mode)

\* C22 as the claim states it: in every branch of prepare_for_render that
\* allocates a surface the output task's id becomes the picture's surface and
\* is appended to the parent's task list during the call, also when the render
\* task cache already holds an entry for the key.
C22_OutputTaskIsSurface ==
    [][PrepareAllocated
        => /\ pic'.surface # NoSurface
           /\ pic'.surface.tag = "RenderTask"
           /\ Len(parent_tasks') > Len(parent_tasks)
           /\ Last(parent_tasks') = pic'.surface.id]_vars

\* C22 as amended: a branch that adds tasks to the frame appends the id of
\* its output task, the last task added, to the parent's task list and nothing
\* else but a MixBlend's readback task; the surface becomes that render task in
\* every branch but the cached Blur, where it becomes the texture cache handle;
\* on a cache hit no task is added and the parent's list is left as it was.
C22_OutputTaskPushed ==
    [][PrepareAllocated
        => LET cached == IsBlur(pic.composite_mode)
                           /\ ~pic.state.has_non_root_coord_system
               added == Len(render_tasks') - Len(render_tasks)
               output == Len(render_tasks')
           IN  /\ SubSeq(render_tasks', 1, Len(render_tasks)) = render_tasks
               /\ pic'.surface # NoSurface
               /\ pic'.surface.tag = IF cached THEN "TextureCache" ELSE "RenderTask"
               /\ ~cached => added > 0 /\ pic'.surface.id = output
               /\ added > 0
                    => parent_tasks' =
                         parent_tasks \o
                           (IF pic.composite_mode.tag = "MixBlend"
                            THEN <<output - 1, output>> ELSE <<output>>)
               /\ added = 0
                    => /\ cached
                       /\ pic'.surface.cache_item \in task_cache
                       /\ parent_tasks' = parent_tasks]_vars

\* A blur found in the render task cache in a later frame: no task is added
\* to the frame and the parent's list stays empty
C22_Witness ==
    /\ PrepareReturned
    /\ pic.surface # NoSurface /\ pic.surface.tag = "TextureCache"
    /\ render_tasks = <<>> /\ parent_tasks = <<>>
    /\ task_cache # {}

\* C23: prepare_for_render goes through the render task cache exactly for a
\* Blur that is not a no-op and whose children use no non-root coordinate
\* system; every other allocating branch adds fresh tasks to the frame, sets a
\* RenderTask surface and leaves the cache alone.
C23_CacheOnlyForRootBlur ==
    [][(last_op'.name = "prepare_for_render" /\ fatal' = NoPanic)
        => LET through_cache ==
                   \/ task_cache' # task_cache
                   \/ pic'.surface # NoSurface /\ pic'.surface.tag = "TextureCache"
               mode == pic.composite_mode
           IN  /\ through_cache <=>
                     /\ mode.tag = "Filter" /\ mode.filter.op = "Blur"
                     /\ mode.filter.radius # 0
                     /\ ~pic.state.has_non_root_coord_system
               /\ (~through_cache /\ ~CanDrawDirectlyToParentSurface(mode))
                    => /\ pic'.surface.tag = "RenderTask"
                       /\ Len(render_tasks') > Len(render_tasks)
                       /\ pic'.surface.id = Len(render_tasks')]_vars

\* A blur whose children use a non-root coordinate system, prepared when the
\* cache already holds the entry of an earlier frame: it gets fresh tasks
C23_Witness ==
    /\ PrepareReturned
    /\ IsBlur(pic.composite_mode)
    /\ pic.surface # NoSurface /\ pic.surface.tag = "RenderTask"
    /\ task_cache # {}

\* The second of two key requests has both rects of the first moved by one offset
Translated(first, second) ==
    /\ second.blur_radius = first.blur_radius
    /\ SizeOf(second.clipped) = SizeOf(first.clipped)
    /\ SizeOf(second.unclipped) = SizeOf(first.unclipped)
    /\ second.clipped.x - first.clipped.x = second.unclipped.x - first.unclipped.x
    /\ second.clipped.y - first.clipped.y = second.unclipped.y - first.unclipped.y

\* C24: the cache key of a blur is the same for two requests whose clipped and
\* unclipped rects differ by one common integer offset, and two requests whose
\* unclipped sizes differ get different keys.
C24_KeyTranslationInvariant ==
    [][(last_op.name = "blur_cache_key" /\ last_op'.name = "blur_cache_key")
        => /\ Translated(arg, arg') => ret' = ret
           /\ SizeOf(arg'.unclipped) # SizeOf(arg.unclipped) => ret' # ret]_vars

\* A key built for a picture that is not at the origin and whose render rect
\* is cut by the unclipped rect
C24_Witness ==
    /\ last_op.name = "blur_cache_key"
    /\ arg.unclipped.x = 1 /\ arg.unclipped.y = 1
    /\ arg.clipped.x = 5
    /\ ret.pic_relative_render_rect.x > 0
    /\ ret.size # SizeOf(arg.unclipped)

\* The parent tasks a sub-graph pop has replaced: those given a resolve_op
ReplacedTasks == {t \in 1 .. Len(tasks) : tasks[t].resolve_op # NoResolveOp}

\* The command buffers of a set of tasks
CmdBuffersOf(T) == {tasks[t].cmd_buffer_index : t \in T}

\* The dependency edges this step adds
EdgesAdded ==
    {e \in BagToSet(deps') : CopiesIn(e, deps') > CopiesIn(e, deps)}

\* C25: once a sub-graph pop has replaced the tasks of a parent scope, a
\* push_prim made while a scope is open appends only to the command buffers
\* of the current tasks of the scope on top, and an add_child_render_task adds
\* edges only from those tasks; neither touches a replaced task or its command
\* buffer.
C25_ReplacementsTargeted ==
    [][(/\ last_op'.name \in {"push_prim", "add_child_render_task"}
        /\ fatal' = NoPanic
        /\ builder_stack # <<>>
        /\ ReplacedTasks # {})
        => LET current == ScopeTasks(Last(builder_stack))
               written == {i \in 1 .. Len(cmd_buffers) : cmd_buffers'[i] # cmd_buffers[i]}
           IN  /\ Len(cmd_buffers') = Len(cmd_buffers)
               /\ current \cap ReplacedTasks = {}
               /\ written \subseteq CmdBuffersOf(current)
               /\ written \cap CmdBuffersOf(ReplacedTasks) = {}
               /\ \A e \in EdgesAdded :
                     e[1] \in current /\ e[1] \notin ReplacedTasks
               /\ (last_op'.name = "push_prim" /\ arg'.vis.state = "Visible")
                    => written = CmdBuffersOf(current)
               /\ last_op'.name = "add_child_render_task"
                    => {e[1] : e \in EdgesAdded} = current]_vars

\* A simple parent whose task a sub-graph pop replaced: the primitive pushed
\* afterwards is in the replacement's command buffer, the child added after
\* that hangs off the replacement, and the replaced task has neither
C25_Witness ==
    /\ last_op.name = "add_child_render_task" /\ fatal = NoPanic
    /\ builder_stack # <<>> /\ Last(builder_stack).kind = "Simple"
    /\ LET new_task_id == Last(builder_stack).render_task_id
           location == tasks[new_task_id].location
       IN  /\ location.tag = "Existing"
           /\ location.parent_task_id \in ReplacedTasks
           /\ cmd_buffers[tasks[new_task_id].cmd_buffer_index] # <<>>
           /\ cmd_buffers[tasks[location.parent_task_id].cmd_buffer_index] = <<>>
           /\ CopiesIn(<<new_task_id, arg.child_task_id>>, deps) = 1
           /\ CopiesIn(<<location.parent_task_id, arg.child_task_id>>, deps) = 0

\* C28: add_child_render_task adds one dependency edge from every current
\* task of the scope on top to the child, one per tile of a tiled scope and one
\* for a simple scope, adds no other edge, and changes neither the stacks nor
\* the tasks, the command buffers or the command buffer targets.
C28_ChildEdgePerTask ==
    [][(last_op'.name = "add_child_render_task" /\ fatal' = NoPanic)
        => LET builder == Last(builder_stack)
               parents == IF builder.kind = "Tiled"
                          THEN [k \in DOMAIN builder.tiles |-> builder.tiles[k]]
                          ELSE <<builder.render_task_id>>
           IN  /\ builder_stack # <<>>
               /\ \A e \in BagToSet(deps') :
                     CopiesIn(e, deps') =
                       CopiesIn(e, deps)
                       + Cardinality({k \in DOMAIN parents :
                                        e = <<parents[k], arg'.child_task_id>>})
               /\ BagCardinality(deps') =
                     BagCardinality(deps) + Cardinality(DOMAIN parents)
               /\ UNCHANGED <<builder_stack, dirty_rect_stack, current_cmd_buffers,
                              tasks, cmd_buffers>>]_vars

\* A child added to a scope of two tiles: both tile tasks depend on it
C28_Witness ==
    /\ last_op.name = "add_child_render_task" /\ fatal = NoPanic
    /\ builder_stack # <<>> /\ Last(builder_stack).kind = "Tiled"
    /\ \E a, b \in DOMAIN Last(builder_stack).tiles :
          /\ a # b
          /\ CopiesIn(<<Last(builder_stack).tiles[a], arg.child_task_id>>, deps) = 1
          /\ CopiesIn(<<Last(builder_stack).tiles[b], arg.child_task_id>>, deps) = 1

\* C26: between operations of a traversal that has not failed, the active
\* command buffer target is the one derived from the scope on top of the
\* stack: a tiled target over exactly the tile keys of a tiled scope, each
\* mapped to the command buffer index of the tile's current task; a simple
\* target with the command buffer index of a simple scope's current task; an
\* empty tiled target when no scope is open.
C26_TargetsFollowTop ==
    fatal = NoPanic =>
        IF builder_stack = <<>>
        THEN current_cmd_buffers.kind = "Tiled" /\ DOMAIN current_cmd_buffers.tiles = {}
        ELSE LET top == Last(builder_stack)
             IN  /\ current_cmd_buffers.kind = top.kind
                 /\ top.kind = "Tiled"
                      => /\ DOMAIN current_cmd_buffers.tiles = DOMAIN top.tiles
                         /\ \A key \in DOMAIN top.tiles :
                               current_cmd_buffers.tiles[key] =
                                   tasks[top.tiles[key]].cmd_buffer_index
                 /\ top.kind = "Simple"
                      => current_cmd_buffers.cmd_buffer_index =
                             tasks[top.render_task_id].cmd_buffer_index

\* After a sub-graph pop onto a tiled parent the target of a tile is the
\* command buffer the pop created last
C26_Witness ==
    /\ last_op.name = "pop_surface" /\ fatal = NoPanic
    /\ last_op.builder.establishes_sub_graph
    /\ builder_stack # <<>> /\ Last(builder_stack).kind = "Tiled"
    /\ \E key \in DOMAIN current_cmd_buffers.tiles :
          /\ current_cmd_buffers.tiles[key] = Len(cmd_buffers)
          /\ Last(builder_stack).tiles[key] # Len(cmd_buffers)

\* C27: a sub-graph pop onto a parent with a single task p, simple or tiled
\* with one tile, leaves what either branch of the rewiring computes for p:
\* the same resolve instruction on p, the same two dependency edges (resolve
\* target on p, replacement on the sub-graph's output), the same replacement
\* payload in the same new command buffer, and a replacement that draws to the
\* place of p.
C27_RewiringSameForBothParents ==
    [][(SubGraphPopReturned
        /\ Cardinality(ScopeTasks(builder_stack[Len(builder_stack) - 1])) = 1)
        => LET builder == Last(builder_stack)
               parent == builder_stack[Len(builder_stack) - 1]
               p == CHOOSE t \in ScopeTasks(parent) : TRUE
               key == CHOOSE k \in TileKeys : TRUE
               dest_origin == tasks'[p].resolve_op[1].dest_origin
               simple == RewireSimple(Graph(tasks, deps, cmd_buffers, p, NoPanic),
                                      builder.resolve_source, dest_origin,
                                      OutputTask(builder))
               tiled == RewireTiles(Graph(tasks, deps, cmd_buffers,
                                          [k \in {key} |-> p], NoPanic),
                                    <<key>>, builder.resolve_source, dest_origin,
                                    OutputTask(builder))
               new_task_id == Len(tasks) + 1
               Payload(task) == [task EXCEPT !.location = <<>>]
           IN  /\ simple.panic = NoPanic /\ tiled.panic = NoPanic
               /\ tasks' \in {simple.tasks, tiled.tasks}
               /\ simple.tiles = new_task_id /\ tiled.tiles[key] = new_task_id
               /\ simple.tasks[p] = tiled.tasks[p]
               /\ simple.tasks[p].resolve_op =
                     <<ResolveOp(p, dest_origin, builder.resolve_source)>>
               /\ simple.deps = tiled.deps /\ deps' = simple.deps
               /\ deps' = deps (+) SetToBag({<<builder.resolve_source, p>>})
                               (+) SetToBag({<<new_task_id, OutputTask(builder)>>})
               /\ simple.cmd_buffers = tiled.cmd_buffers
               /\ Len(simple.tasks) = new_task_id /\ Len(tiled.tasks) = new_task_id
               /\ Payload(simple.tasks[new_task_id]) = Payload(tiled.tasks[new_task_id])
               /\ DrawPlace(simple.tasks, simple.tasks[new_task_id].location)
                     = DrawPlace(tasks, tasks[p].location)
               /\ DrawPlace(tiled.tasks, tiled.tasks[new_task_id].location)
                     = DrawPlace(tasks, tasks[p].location)]_vars

\* A sub-graph popped onto a simple parent: the replacement names the parent's
\* task as the place it draws to, where a tile's replacement would hold a copy
\* of the tile task's location
C27_Witness ==
    /\ last_op.name = "pop_surface" /\ fatal = NoPanic
    /\ last_op.builder.establishes_sub_graph
    /\ builder_stack # <<>> /\ Last(builder_stack).kind = "Simple"
    /\ LET new_task_id == Last(builder_stack).render_task_id
       IN  /\ new_task_id = Len(tasks)
           /\ tasks[new_task_id].location.tag = "Existing"
           /\ tasks[tasks[new_task_id].location.parent_task_id].resolve_op # NoResolveOp

\* C29: with an Unset visibility both is_prim_visible_and_in_dirty_region and
\* push_prim panic; for Culled the query returns false and for PassThrough
\* true, whatever dirty rects are on the stack; push_prim of a Culled or
\* PassThrough primitive returns and leaves every command buffer as it was.
C29_VisibilityGates ==
    [][(last_op'.name \in {"is_prim_visible_and_in_dirty_region", "push_prim"}
        /\ arg'.vis.state # "Visible")
        => /\ arg'.vis.state = "Unset"
                => fatal' = "bug: invalid vis state" /\ ret' = NoRet
           /\ arg'.vis.state # "Unset" => fatal' = NoPanic
           /\ cmd_buffers' = cmd_buffers
           /\ (last_op'.name = "is_prim_visible_and_in_dirty_region"
                /\ arg'.vis.state = "Culled") => ret' = FALSE
           /\ (last_op'.name = "is_prim_visible_and_in_dirty_region"
                /\ arg'.vis.state = "PassThrough") => ret' = TRUE]_vars

\* A PassThrough primitive pushed while a tiled scope with registered tiles
\* and an empty dirty list is open: no command buffer got it
C29_Witness ==
    /\ last_op.name = "push_prim" /\ fatal = NoPanic
    /\ arg.vis.state = "PassThrough"
    /\ current_cmd_buffers.kind = "Tiled"
    /\ DOMAIN current_cmd_buffers.tiles # {}
    /\ dirty_rect_stack # <<>> /\ Last(dirty_rect_stack) = <<>>
    /\ \A i \in 1 .. Len(cmd_buffers) : cmd_buffers[i] = <<>>

\* C30: a take_context that returns a context moves the picture's runs into
\* it and leaves the picture's run list empty, the traversal holding the
\* context returned; restore_context sets the picture's run list to the runs of
\* the context it is given, so that the list is again what it was before the
\* matching take_context.
C30_RunsMoveWithContext ==
    [][/\ (last_op'.name = "take_context" /\ ret' # Culled)
            => /\ ret'.prim_runs = pic.runs
               /\ pic'.runs = <<>>
               /\ traversal'.context = ret'
       /\ last_op'.name = "restore_context"
            => /\ arg'.context = traversal.context
               /\ pic'.runs = traversal.context.prim_runs]_vars

\* A picture that holds a primitive again after its traversal
C30_Witness ==
    /\ last_op.name = "restore_context" /\ fatal = NoPanic
    /\ arg.context.prim_runs # <<>>
    /\ pic.runs = arg.context.prim_runs

\* C31: a prepare_for_render of a picture that can draw directly to its
\* parent's surface adds no task to the frame's tree and no entry to the
\* render task cache, appends the tasks its children collected to the parent's
\* task list in the order they were collected, and leaves the picture's
\* surface None whatever it was.
C31_DirectDrawForwardsTasks ==
    [][(/\ last_op'.name = "prepare_for_render" /\ fatal' = NoPanic
        /\ CanDrawDirectlyToParentSurface(pic.composite_mode))
        => /\ render_tasks' = render_tasks
           /\ task_cache' = task_cache
           /\ pic.state # NoState
           /\ Len(parent_tasks') = Len(parent_tasks) + Len(pic.state.tasks)
           /\ \A i \in 1 .. Len(parent_tasks) : parent_tasks'[i] = parent_tasks[i]
           /\ \A i \in 1 .. Len(pic.state.tasks) :
                 parent_tasks'[Len(parent_tasks) + i] = pic.state.tasks[i]
           /\ pic'.surface = NoSurface]_vars

\* Two tasks of the children forwarded, in their order, by a picture drawn
\* directly
C31_Witness ==
    /\ PrepareReturned
    /\ CanDrawDirectlyToParentSurface(pic.composite_mode)
    /\ pic.surface = NoSurface
    /\ parent_tasks = <<1, 2>>
    /\ render_tasks = <<[kind |-> "Child", children |-> <<>>],
                        [kind |-> "Child", children |-> <<>>]>>

\* The edges E over the tasks N have no cycle: the tasks can be taken away
\* one by one, each one when it waits on none of those left
RECURSIVE NoCycle(_, _)
NoCycle(N, E) ==
    IF N = {} THEN TRUE
    ELSE LET free == {n \in N : \A m \in N : <<n, m>> \notin E}
         IN  free # {} /\ NoCycle(N \ free, E)

Acyclic(d) == NoCycle(1 .. Len(tasks), BagToSet(d))

\* C32 as the claim states it: whatever child tasks the scopes are given, as
\* long as none is a task of an open scope, the dependency edges form no cycle.
C32_NoCycle == Acyclic(deps)

\* No task was given as a child and pushed as a surface afterwards
NoChildPushedLater == early_children \subseteq pending_tasks

\* C32, amended: when the child tasks are neither tasks of open scopes nor
\* tasks of a surface pushed later, the dependency edges never form a cycle,
\* sub-graph rewiring included.
C32_NoCycleWithoutEarlyChild == NoChildPushedLater => Acyclic(deps)

\* A sub-graph was rewired in a scope that has a child task, no child was
\* pushed later, and the edges form no cycle
C32_Witness ==
    /\ fatal = NoPanic
    /\ last_op.name = "pop_surface"
    /\ last_op.builder.establishes_sub_graph
    /\ NoChildPushedLater
    /\ \E e \in BagToSet(deps) :
          /\ e[2] \notin {last_op.builder.render_task_id,
                          last_op.builder.resolve_source}
          /\ \E f \in BagToSet(deps) : f[1] = e[2] \/ f[2] = e[1]
    /\ BagCardinality(deps) >= 3
    /\ Acyclic(deps)

\* The tasks that wait on a task of T directly or through other tasks, over
\* the edges E
RECURSIVE DependenciesOf(_, _)
DependenciesOf(T, E) ==
    LET more == T \cup {e[2] : e \in {f \in E : f[1] \in T}}
    IN  IF more = T THEN T ELSE DependenciesOf(more, E)

\* The task a replacement stands in for, through any number of replacements
RECURSIVE OriginalTask(_, _)
OriginalTask(tsk, t) ==
    IF tsk[t].location.tag = "Existing"
    THEN OriginalTask(tsk, tsk[t].location.parent_task_id)
    ELSE t

\* The edge the caller's chain of a chained scope stands for: the chain root
\* waits on the task the scope was pushed with
ChainEdges(builder, tsk) ==
    IF builder.root_task_id = NoTask THEN {}
    ELSE {<<builder.root_task_id, OriginalTask(tsk, builder.render_task_id)>>}

\* This step is a returning pop_surface of a simple or chained scope that
\* establishes no sub-graph and whose task a sub-graph pop has replaced
ReplacedParentPopped ==
    /\ PopReturned
    /\ Len(builder_stack) >= 2
    /\ Last(builder_stack).kind = "Simple"
    /\ ~Last(builder_stack).establishes_sub_graph
    /\ tasks[Last(builder_stack).render_task_id].location.tag = "Existing"

\* C33: when a scope whose task a sub-graph pop has replaced is popped as a
\* non-sub-graph scope, every target task of the scope below it waits,
\* directly or through other tasks, on the replacement task, whether the scope
\* was pushed as Simple or as Chained.
C33_ReplacementReached ==
    [][ReplacedParentPopped
        => \A t \in ScopeTasks(builder_stack[Len(builder_stack) - 1]) :
              Last(builder_stack).render_task_id
                  \in DependenciesOf({t}, BagToSet(deps')
                         \cup ChainEdges(Last(builder_stack), tasks'))]_vars

\* The tasks whose resolve op this step sets or changes
ResolveOpsSet ==
    {t \in 1 .. Len(tasks) : tasks'[t].resolve_op # tasks[t].resolve_op}

\* C34: every task receives a resolve op at most once. A step sets a resolve
\* op only if it is a sub-graph pop, only on tasks that have none and that are
\* the current tasks of the parent scope (after an earlier sub-graph pop, its
\* replacement tasks), and the tasks it adds to the graph have none.
C34_ResolveOpOnce ==
    [][/\ \A t \in ResolveOpsSet :
            /\ tasks[t].resolve_op = NoResolveOp
            /\ last_op'.name = "pop_surface"
            /\ Last(builder_stack).establishes_sub_graph
            /\ t \in ScopeTasks(builder_stack[Len(builder_stack) - 1])
       /\ \A t \in (1 .. Len(tasks')) \ (1 .. Len(tasks)) :
            tasks'[t].resolve_op = NoResolveOp]_vars

\* A second sub-graph pop under one parent has set the resolve op of the
\* replacement task the first one made
C34_Witness ==
    /\ fatal = NoPanic
    /\ last_op.name = "pop_surface"
    /\ last_op.builder.establishes_sub_graph
    /\ \E a, b \in ReplacedTasks :
          /\ a # b
          /\ tasks[a].resolve_op[1].dest_task_id # last_op.builder.resolve_source
          /\ tasks[b].resolve_op[1].dest_task_id = last_op.builder.resolve_source
          /\ <<b, tasks[a].resolve_op[1].dest_task_id>> \in BagToSet(deps)
          /\ tasks[b].cmd_buffer_index # tasks[a].cmd_buffer_index

\* This step is a pop_surface call on a stack of one scope
SolePopped == last_op'.name = "pop_surface" /\ Len(builder_stack) = 1

\* C35: pop_surface of a Simple or Chained scope that is the only scope on
\* the stack is fatal, whether or not it establishes a sub-graph: a scope that
\* establishes none fails on the missing parent. A Tiled scope that is the
\* only scope is popped and leaves the stack empty.
C35_SolePopFatalUnlessTiled ==
    [][SolePopped
        => /\ Last(builder_stack).kind = "Simple" => fatal' # NoPanic
           /\ (/\ Last(builder_stack).kind = "Simple"
               /\ ~Last(builder_stack).establishes_sub_graph)
                  => fatal' = "unwrap on None"
           /\ Last(builder_stack).kind = "Tiled"
                  => (fatal' = NoPanic /\ builder_stack' = <<>>)]_vars

\* A chained scope was pushed first and its pop found no parent
C35_Witness ==
    /\ last_op.name = "pop_surface"
    /\ last_op.builder.kind = "Simple"
    /\ last_op.builder.root_task_id # NoTask
    /\ ~last_op.builder.establishes_sub_graph
    /\ pushes = 1 /\ pops = 0
    /\ builder_stack = <<>>
    /\ fatal = "unwrap on None"

\* No scope is open
StackEmpty == builder_stack = <<>> /\ dirty_rect_stack = <<>>

\* C36: while the scope stack is empty, before the first push or after the
\* last pop, push_prim of a Visible primitive returns and adds the primitive
\* to no command buffer, and add_child_render_task and
\* is_prim_visible_and_in_dirty_region of a Visible primitive are fatal.
C36_EmptyStackCalls ==
    [][StackEmpty
        => /\ (last_op'.name = "push_prim" /\ arg'.vis.state = "Visible")
                  => (fatal' = NoPanic /\ cmd_buffers' = cmd_buffers)
           /\ last_op'.name = "add_child_render_task"
                  => (fatal' = "unwrap on None" /\ deps' = deps)
           /\ (/\ last_op'.name = "is_prim_visible_and_in_dirty_region"
               /\ arg'.vis.state = "Visible")
                  => fatal' = "unwrap on None"]_vars

\* After the last pop a Visible primitive was pushed: the call returned and
\* the command buffer of the popped surface is still empty
C36_Witness ==
    /\ StackEmpty
    /\ pops >= 1 /\ pops = pushes
    /\ last_op.name = "push_prim"
    /\ arg.vis.state = "Visible"
    /\ fatal = NoPanic
    /\ cmd_buffers # <<>>
    /\ PrimCount(cmd_buffers) = 0

\* The primitive indices a run list covers
RunIndicesOf(runs) ==
    UNION {r.base_prim_index .. (r.base_prim_index + r.count - 1)
           : r \in {runs[i] : i \in 1 .. Len(runs)}}

\* C37: a primitive added with add_primitive between a take_context that
\* returned a context and the matching restore_context goes to the picture's
\* own run list and leaves the context as it is, and restore_context makes the
\* picture's run list exactly the list the context carries: an index added in
\* between that the context does not hold is in no run afterwards.
C37_AddedInTraversalDropped ==
    [][/\ (traversal # NoTraversal /\ last_op'.name = "add_primitive")
            => /\ traversal' = traversal
               /\ arg'.prim_index \in RunIndicesOf(pic'.runs)
       /\ last_op'.name = "restore_context"
            => /\ pic'.runs = traversal.context.prim_runs
               /\ \A i \in RunIndicesOf(pic.runs)
                            \ RunIndicesOf(traversal.context.prim_runs) :
                      i \notin RunIndicesOf(pic'.runs)]_vars

\* A picture that held a primitive when it was entered was given another one
\* during the traversal, and after the exit holds the first one only
C37_Witness ==
    /\ last_op.name = "restore_context" /\ fatal = NoPanic
    /\ dropped_runs # <<>>
    /\ arg.context.prim_runs # <<>>
    /\ pic.runs = arg.context.prim_runs
    /\ RunIndicesOf(dropped_runs) \cap RunIndicesOf(pic.runs) = {}

\* C14: a projection that fails is never fatal: no call ends in the panic of
\* an unwrap on the None a failed projection yields.
C14_ProjectionNeverFatal == fatal # ProjectionPanic


====
